---- MODULE Spec2Model ----
(***************************************************************************)
(* KrinoSeq: the length-based filtering engine (backend/filters), the      *)
(* FilterPipeline that chains its stages (backend/core/pipeline.py) and    *)
(* the FilteringWorkflow / pipeline-configuration validator around it.     *)
(*                                                                         *)
(* Encoding.                                                               *)
(*  - A length mapping (Dict[str, int]) is a function from sequence ids    *)
(*    (naturals) to lengths; the empty dict is << >>.                      *)
(*  - kwargs / params dicts are records holding only the keys present;     *)
(*    kwargs.get(key, default) is Get(params, key, default).  An Optional  *)
(*    argument is << >> for None and <<v>> for the value v.                *)
(*  - The float parameters k (iqr) and threshold (zscore) are carried as   *)
(*    twice their value (k = 1.5 is 3, threshold = 2.5 is 5); quartiles    *)
(*    are carried as four times their value.  Thresholds are compared in   *)
(*    exact rational arithmetic.                                           *)
(*  - A call returns an outcome record: ok = TRUE with the returned value, *)
(*    or ok = FALSE with the name of the exception raised.  alias = TRUE   *)
(*    says that the returned dict is the argument object itself.           *)
(*  - The numerical libraries (scipy.stats.boxcox, sklearn mixtures) are   *)
(*    not computed: their behaviour in one run is the record `fit`, drawn  *)
(*    from FitOutcomes.                                                    *)
(***************************************************************************)
EXTENDS Integers, Sequences, FiniteSets, TLC

VARIABLES
    heap,              \* object store: "m" the caller's dict, "in", "res" the pipeline's
    stages,            \* FilterPipeline.stages: sequence of FilterStage objects
    input_sequences,   \* FilterPipeline.input_sequences: "None" or a reference
    result_sequences,  \* FilterPipeline.result_sequences: "None" or a reference
    fit,               \* behaviour of the numerical libraries in the last call
    trace,             \* history: the stage applications of the last run, in order
    lastOp,            \* the last operation performed and how it ended
    ret,               \* what the last operation returned
    runs,              \* number of calls of run so far
    completed,         \* history: number of calls of run that returned
    run_input,         \* history: the content of the caller's dict when run was last called
    finalized,         \* history: the report as of the end of the last completed run
    job                \* the job_info entry of active_jobs, or NoJob

vars == <<heap, stages, input_sequences, result_sequences, fit, trace, lastOp, ret,
          runs, completed, run_input, finalized, job>>

-----------------------------------------------------------------------------
(* Small helpers *)

None == << >>

Get(params, key, default) == IF key \in DOMAIN params THEN params[key] ELSE default

Opt(params, key) == IF key \in DOMAIN params THEN <<params[key]>> ELSE None

MaxOf(S) == CHOOSE x \in S : \A y \in S : y <= x

MinOf(S) == CHOOSE x \in S : \A y \in S : x <= y

Abs(x) == IF x < 0 THEN 0 - x ELSE x


RECURSIVE Gcd(_, _)
Gcd(a, b) == IF b = 0 THEN a ELSE Gcd(b, a % b)

\* the greatest common divisor of the absolute values of a set of integers
RECURSIVE GcdOver(_)
GcdOver(S) ==
    IF S = {} THEN 0
    ELSE LET x == CHOOSE y \in S : TRUE IN Gcd(Abs(x), GcdOver(S \ {x}))

\* the ids of a dict in ascending order: a dict keeps its keys in insertion
\* order, and an id is the rank at which the sequence was read
IdsAscending(S) ==
    IF S = {} THEN << >>
    ELSE SelectSeq([k \in 1..MaxOf(S) |-> k], LAMBDA k : k \in S)

\* list(seq_lengths.values())
Values(m) == LET ids == IdsAscending(DOMAIN m) IN [k \in 1..Len(ids) |-> m[ids[k]]]

Elems(lengths) == {lengths[k] : k \in 1..Len(lengths)}

Count(lengths, v) == Cardinality({k \in 1..Len(lengths) : lengths[k] = v})

\* the sum of the elements of s whose value is in vals
RECURSIVE SumOver(_, _)
SumOver(s, vals) ==
    IF vals = {} THEN 0
    ELSE LET v == CHOOSE x \in vals : TRUE IN v * Count(s, v) + SumOver(s, vals \ {v})

\* sum(s)
SumSeq(s) == SumOver(s, Elems(s))

RECURSIVE SortedDescOver(_, _)
SortedDescOver(lengths, vals) ==
    IF vals = {} THEN << >>
    ELSE LET top == MaxOf(vals)
         IN [k \in 1..Count(lengths, top) |-> top] \o SortedDescOver(lengths, vals \ {top})

\* sorted(lengths, reverse=True)
SortedDesc(lengths) == SortedDescOver(lengths, Elems(lengths))

\* sorted(lengths)
SortedAsc(lengths) ==
    LET d == SortedDesc(lengths) IN [k \in 1..Len(d) |-> d[Len(d) + 1 - k]]

Ok(value, isAlias) == [ok |-> TRUE, value |-> value, alias |-> isAlias, exc |-> "none"]

Raise(exc) == [ok |-> FALSE, value |-> << >>, alias |-> FALSE, exc |-> exc]

-----------------------------------------------------------------------------
(* backend/core/statistics.py *)

\* Variant of N50Scan: the scan stops only when the running sum exceeds half
\* of the total
RECURSIVE N50ScanPastHalf(_, _, _, _)
N50ScanPastHalf(sorted, i, running, total) ==
    IF i > Len(sorted) THEN sorted[Len(sorted)]
    ELSE LET c == Count(sorted, sorted[i])
             r == running + c * sorted[i]
         IN IF 2 * r > total THEN sorted[i] ELSE N50ScanPastHalf(sorted, i + c, r, total)

\* The scan of the descending list from position i with running sum `running`,
\* taken one run of equal lengths at a time: the scan stops inside the run at i
\* exactly if the running sum at the run's end reaches half of the total.
RECURSIVE N50Scan(_, _, _, _)
N50Scan(sorted, i, running, total) ==
    IF i > Len(sorted) THEN sorted[Len(sorted)]
    ELSE LET c == Count(sorted, sorted[i])
             r == running + c * sorted[i]
         IN IF 2 * r >= total THEN sorted[i] ELSE N50Scan(sorted, i + c, r, total)

calculate_n50(lengths) ==
    IF lengths = << >> THEN 0
    ELSE LET sorted == SortedDesc(lengths) IN N50Scan(sorted, 1, 0, SumSeq(sorted))

\* The same scan, returning the position at which it stops
RECURSIVE L50Scan(_, _, _, _)
L50Scan(sorted, i, running, total) ==
    IF i > Len(sorted) THEN Len(sorted)
    ELSE LET c == Count(sorted, sorted[i])
             r == running + c * sorted[i]
         IN IF 2 * r >= total
            THEN i - 1 + MinOf({j \in 1..c : 2 * (running + j * sorted[i]) >= total})
            ELSE L50Scan(sorted, i + c, r, total)

calculate_l50(lengths) ==
    IF lengths = << >> THEN 0
    ELSE LET sorted == SortedDesc(lengths) IN L50Scan(sorted, 1, 0, SumSeq(sorted))

\* int(np.median(lengths)) of a non-empty list
MedianInt(lengths) ==
    LET a == SortedAsc(lengths)
        n == Len(a)
    IN IF n % 2 = 1 THEN a[(n + 1) \div 2] ELSE (a[n \div 2] + a[n \div 2 + 1]) \div 2

-----------------------------------------------------------------------------
(* backend/filters/basic_filters.py *)

\* Variant of filter_by_length: a length equal to a bound is removed
filter_by_lengthExclusive(seq_lengths, min_length, max_length) ==
    LET keep == {id \in DOMAIN seq_lengths :
                    /\ (min_length = None \/ seq_lengths[id] > min_length[1])
                    /\ (max_length = None \/ seq_lengths[id] < max_length[1])}
    IN [id \in keep |-> seq_lengths[id]]

\* Variant of filter_by_length: the loop leaves out the first entry of the dict
filter_by_lengthSkippingFirst(seq_lengths, min_length, max_length) ==
    LET keep == {id \in DOMAIN seq_lengths :
                    /\ id # MinOf(DOMAIN seq_lengths)
                    /\ (min_length = None \/ seq_lengths[id] >= min_length[1])
                    /\ (max_length = None \/ seq_lengths[id] <= max_length[1])}
    IN [id \in keep |-> seq_lengths[id]]

filter_by_length(seq_lengths, min_length, max_length) ==
    LET keep == {id \in DOMAIN seq_lengths :
                    /\ (min_length = None \/ seq_lengths[id] >= min_length[1])
                    /\ (max_length = None \/ seq_lengths[id] <= max_length[1])}
    IN [id \in keep |-> seq_lengths[id]]

(* A float threshold is carried by what the code reads of it: whether it is
   float('inf'), its integer part int(x) (x >= 0), and whether x is that integer. *)
Inf == [inf |-> TRUE, floor |-> 0, exact |-> FALSE]

Fin(floor, exact) == [inf |-> FALSE, floor |-> floor, exact |-> exact]

\* A non-negative rational num/den as a threshold
Ratio(num, den) == Fin(num \div den, num % den = 0)

\* four times np.percentile(lengths, p) for p = 25 (q = 1) and p = 75 (q = 3):
\* linear interpolation at position q*(n-1)/4 of the ascending list
Percentile4(lengths, q) ==
    LET a == SortedAsc(lengths)
        n == Len(a)
        lo == (q * (n - 1)) \div 4
        r == (q * (n - 1)) % 4
    IN IF r = 0 THEN 4 * a[lo + 1] ELSE 4 * a[lo + 1] + r * (a[lo + 2] - a[lo + 1])

\* k2 is twice k; the thresholds are eighths
calculate_iqr_thresholds(lengths, k2) ==
    IF Len(lengths) < 4 THEN <<Fin(0, TRUE), Inf>>
    ELSE LET q1 == Percentile4(lengths, 1)
             q3 == Percentile4(lengths, 3)
             iqr == q3 - q1
             lower8 == 2 * q1 - k2 * iqr
         IN <<IF lower8 <= 0 THEN Fin(0, TRUE) ELSE Ratio(lower8, 8),
              Ratio(2 * q3 + k2 * iqr, 8)>>

\* int(x) of a float threshold, then filter_by_length with both bounds:
\* int(float('inf')) raises OverflowError
FilterWithThresholds(seq_lengths, th) ==
    IF th[1].inf \/ th[2].inf THEN Raise("OverflowError")
    ELSE Ok(filter_by_length(seq_lengths, <<th[1].floor>>, <<th[2].floor>>), FALSE)

filter_by_iqr(seq_lengths, k2) ==
    FilterWithThresholds(seq_lengths, calculate_iqr_thresholds(Values(seq_lengths), k2))

\* n*n*variance = n*sum(x^2) - sum(x)^2
NNVar(lengths) ==
    Len(lengths) * SumSeq([k \in 1..Len(lengths) |-> lengths[k] * lengths[k]])
        - SumSeq(lengths) * SumSeq(lengths)

\* z2 is twice z_threshold, zzV = z2^2 * V.  With mean = S/n and std = sqrt(V)/n:
\*   t <= mean - z*std  iff  n*t <= S  and  zzV <= 4*(S - n*t)^2
\*   t <= mean + z*std  iff  n*t <= S  or   4*(n*t - S)^2 <= zzV
AtMostThreshold(n, S, zzV, side, t) ==
    IF side = "lower" THEN n * t <= S /\ zzV <= 4 * (S - n * t) * (S - n * t)
    ELSE n * t <= S \/ 4 * (n * t - S) * (n * t - S) <= zzV

\* int(x) of the threshold x of the given side, known to lie in lo..hi
RECURSIVE ThresholdFloor(_, _, _, _, _, _)
ThresholdFloor(n, S, zzV, side, lo, hi) ==
    IF lo >= hi THEN lo
    ELSE LET mid == (lo + hi + 1) \div 2
         IN IF AtMostThreshold(n, S, zzV, side, mid)
            THEN ThresholdFloor(n, S, zzV, side, mid, hi)
            ELSE ThresholdFloor(n, S, zzV, side, lo, mid - 1)

ZThresholds(n, S, V, z2, top) ==
    LET lo == ThresholdFloor(n, S, z2 * z2 * V, "lower", 0, top)
        up == ThresholdFloor(n, S, z2 * z2 * V, "upper", 0, top)
    IN <<Fin(lo, lo = 0 \/ z2 * z2 * V = 4 * (S - n * lo) * (S - n * lo)),
         Fin(up, n * up >= S /\ 4 * (n * up - S) * (n * up - S) = z2 * z2 * V)>>

calculate_zscore_thresholds(lengths, z2) ==
    IF Len(lengths) < 2 THEN <<Fin(0, TRUE), Inf>>
    ELSE LET n == Len(lengths)
             S == SumSeq(lengths)
             V == NNVar(lengths)
             hi == MaxOf(Elems(lengths))
             span == hi - MinOf(Elems(lengths))
         IN IF V = 0 THEN <<Fin(S \div n, TRUE), Fin(S \div n, TRUE)>>
            ELSE ZThresholds(n, S, V, z2, hi + (z2 * span) \div 4 + 1)

filter_by_zscore(seq_lengths, z2) ==
    FilterWithThresholds(seq_lengths, calculate_zscore_thresholds(Values(seq_lengths), z2))

\* Central moments of the list, each deviation scaled by n and divided by the
\* common divisor of all deviations (skewness and kurtosis do not depend on scale):
\*   skewness^2 = n * M3^2 / M2^3,   kurtosis = n * M4 / M2^2 - 3
Deviations(lengths) ==
    LET n == Len(lengths)
        S == SumSeq(lengths)
        d == [k \in 1..n |-> n * lengths[k] - S]
        g == GcdOver(Elems(d))
    IN IF g = 0 THEN d ELSE [k \in 1..n |-> d[k] \div g]

(* The moment sums exceed 32-bit integers: they are held as naturals in base
   10000, least significant limb first. *)
RECURSIVE Big(_)
Big(n) == IF n = 0 THEN << >> ELSE <<n % 10000>> \o Big(n \div 10000)

Limb(a, k) == IF k <= Len(a) THEN a[k] ELSE 0

RECURSIVE BigCarry(_, _)
BigCarry(s, c) ==
    IF s = << >> THEN Big(c)
    ELSE <<(Head(s) + c) % 10000>> \o BigCarry(Tail(s), (Head(s) + c) \div 10000)

BigAdd(a, b) ==
    BigCarry([k \in 1..(IF Len(a) > Len(b) THEN Len(a) ELSE Len(b)) |->
                Limb(a, k) + Limb(b, k)], 0)

BigMul(a, b) ==
    IF a = << >> \/ b = << >> THEN << >>
    ELSE BigCarry([k \in 1..(Len(a) + Len(b) - 1) |->
                     SumSeq([i \in 1..Len(a) |->
                               IF k + 1 - i >= 1 THEN a[i] * Limb(b, k + 1 - i) ELSE 0])], 0)

RECURSIVE BigLessFrom(_, _, _)
BigLessFrom(a, b, k) ==
    IF k = 0 THEN FALSE
    ELSE IF Limb(a, k) # Limb(b, k) THEN Limb(a, k) < Limb(b, k)
    ELSE BigLessFrom(a, b, k - 1)

BigLess(a, b) == BigLessFrom(a, b, IF Len(a) > Len(b) THEN Len(a) ELSE Len(b))

\* sum of |v|^p over the deviations in vals, each counted as often as it occurs in e
RECURSIVE MomentOver(_, _, _)
MomentOver(e, vals, p) ==
    IF vals = {} THEN << >>
    ELSE LET v == CHOOSE x \in vals : TRUE
             a == Big(Abs(v))
             sq == BigMul(a, a)
             pw == IF p = 2 THEN sq ELSE IF p = 3 THEN BigMul(sq, a) ELSE BigMul(sq, sq)
         IN BigAdd(BigMul(Big(Count(e, v)), pw), MomentOver(e, vals \ {v}, p))

\* sum of |e|^p over the deviations e of the given sign (sign 0: all of them)
Moment(lengths, p, sign) ==
    LET e == Deviations(lengths)
    IN MomentOver(e, {v \in Elems(e) : (sign >= 0 /\ v > 0) \/ (sign <= 0 /\ v < 0)}, p)

\* abs(stats.skew(lengths)) > c, for c = 2 (c2 = 4) and c = 4 (c2 = 16);
\* the skewness of a constant list is nan, which compares False.
\* With M3 = P - N:  n * M3^2 > c2 * M2^3  iff  n*(P^2 + N^2) > c2 * M2^3 + 2*n*P*N
AbsSkewExceeds(lengths, c2) ==
    LET n == Big(Len(lengths))
        m2 == Moment(lengths, 2, 0)
        P == Moment(lengths, 3, 1)
        N == Moment(lengths, 3, -1)
    IN /\ m2 # << >>
       /\ BigLess(BigAdd(BigMul(Big(c2), BigMul(m2, BigMul(m2, m2))),
                         BigMul(Big(2), BigMul(n, BigMul(P, N)))),
                  BigMul(n, BigAdd(BigMul(P, P), BigMul(N, N))))

\* abs(stats.kurtosis(lengths)) < 1, that is 2 < n * M4 / M2^2 < 4; nan compares False
AbsKurtosisBelowOne(lengths) ==
    LET n == Big(Len(lengths))
        m2 == Moment(lengths, 2, 0)
        m4 == Moment(lengths, 4, 0)
    IN /\ m2 # << >>
       /\ BigLess(BigMul(Big(2), BigMul(m2, m2)), BigMul(n, m4))
       /\ BigLess(BigMul(n, m4), BigMul(Big(4), BigMul(m2, m2)))

\* Variant of AdaptiveChoice: the two factors of each delegate are exchanged
AdaptiveChoiceExchanged(lengths) ==
    IF AbsSkewExceeds(lengths, 4)
    THEN [selected_method |-> "iqr",
          factor |-> IF AbsSkewExceeds(lengths, 16) THEN 3 ELSE 4]
    ELSE [selected_method |-> "zscore",
          factor |-> IF AbsKurtosisBelowOne(lengths) THEN 5 ELSE 6]

\* The branch adaptive_threshold_calculator takes: the delegate and its parameter
AdaptiveChoice(lengths) ==
    IF AbsSkewExceeds(lengths, 4)
    THEN [selected_method |-> "iqr",
          factor |-> IF AbsSkewExceeds(lengths, 16) THEN 4 ELSE 3]
    ELSE [selected_method |-> "zscore",
          factor |-> IF AbsKurtosisBelowOne(lengths) THEN 6 ELSE 5]

adaptive_threshold_calculator(lengths) ==
    IF lengths = << >> THEN <<Fin(0, TRUE), Inf>>
    ELSE LET c == AdaptiveChoice(lengths)
         IN IF c.selected_method = "iqr"
            THEN calculate_iqr_thresholds(lengths, c.factor)
            ELSE calculate_zscore_thresholds(lengths, c.factor)

filter_by_adaptive_threshold(seq_lengths) ==
    FilterWithThresholds(seq_lengths, adaptive_threshold_calculator(Values(seq_lengths)))

-----------------------------------------------------------------------------
(* backend/filters/n50_optimization.py *)

\* the default of the step argument of find_optimal_n50_cutoff
DefaultStep == 10

\* [length for length in lengths if length >= min_length]
simulate_min_length_filter(lengths, min_length) ==
    SelectSeq(lengths, LAMBDA length : length >= min_length)

\* Variant of calculate_n50_after_filtering: a length equal to min_length is dropped
calculate_n50_after_filteringStrict(lengths, min_length) ==
    LET filtered_lengths == SelectSeq(lengths, LAMBDA length : length > min_length)
    IN IF filtered_lengths = << >> THEN 0 ELSE calculate_n50(filtered_lengths)

calculate_n50_after_filtering(lengths, min_length) ==
    LET filtered_lengths == simulate_min_length_filter(lengths, min_length)
    IN IF filtered_lengths = << >> THEN 0 ELSE calculate_n50(filtered_lengths)

\* Variant of N50CutoffLoop: a cutoff that only equals the best N50 replaces it
RECURSIVE N50CutoffLoopKeepsLast(_, _, _, _, _)
N50CutoffLoopKeepsLast(lengths, cutoff, max_cutoff, step, best) ==
    IF cutoff > max_cutoff THEN best
    ELSE LET current_n50 == calculate_n50_after_filtering(lengths, cutoff)
         IN N50CutoffLoopKeepsLast(lengths, cutoff + step, max_cutoff, step,
                IF current_n50 >= best[2] THEN <<cutoff, current_n50>> ELSE best)

\* the loop over range(min_cutoff, max_cutoff + 1, step), carrying (best_cutoff, best_n50)
RECURSIVE N50CutoffLoop(_, _, _, _, _)
N50CutoffLoop(lengths, cutoff, max_cutoff, step, best) ==
    IF cutoff > max_cutoff THEN best
    ELSE LET current_n50 == calculate_n50_after_filtering(lengths, cutoff)
         IN N50CutoffLoop(lengths, cutoff + step, max_cutoff, step,
                          IF current_n50 > best[2] THEN <<cutoff, current_n50>> ELSE best)

\* the cutoffs find_optimal_n50_cutoff starts and ends its scan with
FirstCutoff(lengths, min_cutoff) ==
    IF min_cutoff = None
    THEN (IF MinOf(Elems(lengths)) \div 10 > 1 THEN MinOf(Elems(lengths)) \div 10 ELSE 1)
    ELSE min_cutoff[1]

LastCutoff(lengths, max_cutoff) ==
    IF max_cutoff = None THEN MedianInt(lengths) ELSE max_cutoff[1]

\* Variant of find_optimal_n50_cutoff: the scan starts from a best N50 of 0
find_optimal_n50_cutoffFromZero(lengths, min_cutoff, max_cutoff, step) ==
    IF lengths = << >> THEN <<0, 0>>
    ELSE N50CutoffLoop(lengths, FirstCutoff(lengths, min_cutoff),
                       LastCutoff(lengths, max_cutoff), step, <<0, 0>>)

\* min_cutoff and max_cutoff are Optional; returns <<best_cutoff, best_n50>>
find_optimal_n50_cutoff(lengths, min_cutoff, max_cutoff, step) ==
    IF lengths = << >> THEN <<0, 0>>
    ELSE N50CutoffLoop(lengths, FirstCutoff(lengths, min_cutoff),
                       LastCutoff(lengths, max_cutoff), step,
                       <<0, calculate_n50(lengths)>>)

\* the loop of optimize_n50_l50_tradeoff over range(0, int(np.median(lengths)), 10),
\* carrying (best_cutoff, best_n50)
RECURSIVE TradeoffLoop(_, _, _, _, _, _)
TradeoffLoop(lengths, trial_cutoff, stop, min_seqs, min_len, best) ==
    IF trial_cutoff >= stop THEN best[1]
    ELSE LET filtered_lengths == simulate_min_length_filter(lengths, trial_cutoff)
         IN IF Len(filtered_lengths) < min_seqs \/ SumSeq(filtered_lengths) < min_len
            THEN best[1]
            ELSE LET current_n50 == calculate_n50(filtered_lengths)
                 IN TradeoffLoop(lengths, trial_cutoff + 10, stop, min_seqs, min_len,
                                 IF current_n50 > best[2] THEN <<trial_cutoff, current_n50>>
                                 ELSE best)

\* the percentages are whole numbers; int(x * pct / 100) is the floor of the quotient
optimize_n50_l50_tradeoff(lengths, min_sequence_pct, min_length_pct) ==
    IF lengths = << >> THEN 0
    ELSE TradeoffLoop(lengths, 0, MedianInt(lengths),
                      (Len(lengths) * min_sequence_pct) \div 100,
                      (SumSeq(lengths) * min_length_pct) \div 100,
                      <<0, calculate_n50(lengths)>>)

-----------------------------------------------------------------------------
(* backend/filters/distribution_analysis.py *)

\* fewer points than this: detect_multimodality fits nothing
MinPointsForGMM == 50

\* the clamp of the recommended cutoff
MinReasonableCutoff == 100

MaxReasonableCutoff == 5000

(* What the numerical libraries do in one call:
     boxcox_raises   stats.boxcox raises
     fails_from      0: every mixture fit succeeds; k >= 1: fitting a mixture of
                     k or more components raises
     ncomp           the number of components of weight >= 0.01 of the selected
                     model (at most its n_components)
     cutoff          the cutoff between the first two components, transformed
                     back to original units and rounded, before the clamp *)
FitOutcomes ==
    { [boxcox_raises |-> FALSE, fails_from |-> 0, ncomp |-> 2, cutoff |-> 250],
      [boxcox_raises |-> FALSE, fails_from |-> 0, ncomp |-> 1, cutoff |-> 250],
      [boxcox_raises |-> TRUE,  fails_from |-> 0, ncomp |-> 2, cutoff |-> 40],
      [boxcox_raises |-> FALSE, fails_from |-> 0, ncomp |-> 2, cutoff |-> 7000],
      [boxcox_raises |-> FALSE, fails_from |-> 1, ncomp |-> 2, cutoff |-> 250],
      [boxcox_raises |-> FALSE, fails_from |-> 2, ncomp |-> 2, cutoff |-> 250] }

\* transform_params["type"] of transform_data
transform_data(lengths, transform_type, f) ==
    IF transform_type = "box-cox"
    THEN (IF f.boxcox_raises THEN "log" ELSE "box-cox")
    ELSE IF transform_type = "log" THEN "log" ELSE "none"

(* The values of the transforms.  A real number is carried exactly: a rational
   <<numerator, denominator>> in lowest terms, or the natural logarithm of
   one (ln = TRUE).  A Box-Cox lambda is a rational. *)
Rat(p, q) ==
    LET g == Gcd(IF p < 0 THEN -p ELSE p, IF q < 0 THEN -q ELSE q)
    IN IF q < 0 THEN <<(-p) \div g, (-q) \div g>> ELSE <<p \div g, q \div g>>

Real(r) == [ln |-> FALSE, r |-> r]

LnOf(r) == [ln |-> TRUE, r |-> r]

RatAdd(a, b) == Rat(a[1] * b[2] + b[1] * a[2], a[2] * b[2])

RatMul(a, b) == Rat(a[1] * b[1], a[2] * b[2])

RatDiv(a, b) == Rat(a[1] * b[2], a[2] * b[1])

\* the root of a perfect square
Sqrt(n) == CHOOSE k \in 0..n : k * k = n

\* a ** e for the exponents 1, 2, 1/2 and -1 and their inverses
RatPow(a, e) ==
    CASE e = <<1, 1>> -> a
      [] e = <<2, 1>> -> RatMul(a, a)
      [] e = <<1, 2>> -> Rat(Sqrt(a[1]), Sqrt(a[2]))
      [] e = <<-1, 1>> -> RatDiv(<<1, 1>>, a)

(* What stats.boxcox does in one call: it raises, or it fits lmbda. *)
BoxCoxOutcomes ==
    {[raises |-> TRUE, lmbda |-> <<0, 1>>]} \cup
    {[raises |-> FALSE, lmbda |-> l] :
        l \in {<<-4, 1>>, <<-1, 1>>, <<0, 1>>, <<1, 2>>, <<1, 1>>, <<2, 1>>, <<4, 1>>}}

\* abs(lmbda) > 3
IsExtreme(lmbda) == lmbda[1] > 3 * lmbda[2] \/ -lmbda[1] > 3 * lmbda[2]

\* the lambda stored by transform_data: an extreme one is replaced by 0 or 0.5
LimitedLambda(lmbda) ==
    IF ~IsExtreme(lmbda) THEN lmbda ELSE IF lmbda[1] < 0 THEN <<0, 1>> ELSE <<1, 2>>

\* the offset that makes the lengths positive
BoxCoxOffset(lengths) ==
    LET min_length == MinOf(Elems(lengths))
    IN IF min_length <= 0 THEN (IF min_length < 0 THEN -min_length ELSE min_length) + 1 ELSE 0

\* scipy.stats.boxcox of one value x > 0 with the fitted lmbda
boxcox(x, lmbda) ==
    IF lmbda[1] = 0 THEN LnOf(<<x, 1>>)
    ELSE Real(RatDiv(RatAdd(RatPow(<<x, 1>>, lmbda), <<-1, 1>>), lmbda))

\* transform_params of transform_data(lengths, transform_type)
transform_params(lengths, transform_type, b) ==
    IF transform_type = "box-cox"
    THEN (IF b.raises THEN [type |-> "log", lambda |-> <<0, 1>>, offset |-> 1]
          ELSE [type |-> "box-cox", lambda |-> LimitedLambda(b.lmbda),
                offset |-> BoxCoxOffset(lengths)])
    ELSE IF transform_type = "log" THEN [type |-> "log", lambda |-> <<0, 1>>, offset |-> 1]
    ELSE [type |-> transform_type, lambda |-> <<0, 1>>, offset |-> 0]

\* transformed_data[i] of transform_data(lengths, transform_type)
transformed_data(lengths, i, transform_type, b) ==
    IF transform_type = "box-cox"
    THEN (IF b.raises THEN LnOf(<<lengths[i] + 1, 1>>)
          ELSE IF ~IsExtreme(b.lmbda)
          THEN boxcox(lengths[i] + BoxCoxOffset(lengths), b.lmbda)
          ELSE IF LimitedLambda(b.lmbda) = <<0, 1>>
          THEN LnOf(<<lengths[i] + BoxCoxOffset(lengths) + 1, 1>>)
          ELSE Real(RatPow(<<lengths[i] + BoxCoxOffset(lengths), 1>>,
                           LimitedLambda(b.lmbda))))
    ELSE IF transform_type = "log" THEN LnOf(<<lengths[i] + 1, 1>>)
    ELSE Real(<<lengths[i], 1>>)

\* inverse_transform_value(value, transform_params): np.exp and np.expm1 are
\* applied to logarithms only
inverse_transform_value(value, params) ==
    IF params.type = "box-cox"
    THEN (IF params.lambda[1] = 0
          THEN RatAdd(value.r, <<-params.offset, 1>>)
          ELSE RatAdd(RatPow(RatAdd(RatMul(params.lambda, value.r), <<1, 1>>),
                             RatDiv(<<1, 1>>, params.lambda)),
                      <<-params.offset, 1>>))
    ELSE IF params.type = "log" THEN RatAdd(value.r, <<-1, 1>>)
    ELSE value.r

\* min(max_components, max(2, n // 100), 10), and at most 5 (at least 2) below 1000 points
CappedComponents(n, max_components) ==
    LET byData == IF n \div 100 > 2 THEN n \div 100 ELSE 2
        c == MinOf({max_components, byData, 10})
    IN IF n < 1000 THEN MaxOf({2, MinOf({c, 5})}) ELSE c

\* Variant of detect_multimodality: 49 points are enough for a fit
detect_multimodalityOn49(lengths, max_components, transform_type, component_method, f) ==
    IF Len(lengths) < MinPointsForGMM - 1
    THEN Ok([components |-> 0, transform |-> "none"], FALSE)
    ELSE LET tp == transform_data(lengths, transform_type, f)
             cap == CappedComponents(Len(lengths), max_components)
             models == IF f.fails_from = 0 \/ f.fails_from > cap
                       THEN cap ELSE f.fails_from - 1
         IN IF component_method = "dirichlet"
            THEN (IF models < cap THEN Raise("FitError")
                  ELSE Ok([components |-> MinOf({f.ncomp, cap}), transform |-> tp], FALSE))
            ELSE (IF models = 0 THEN Ok([components |-> 0, transform |-> tp], FALSE)
                  ELSE Ok([components |-> MinOf({f.ncomp, models}), transform |-> tp], FALSE))

\* The analysis result is carried by its component count and transform type
detect_multimodality(lengths, max_components, transform_type, component_method, f) ==
    IF Len(lengths) < MinPointsForGMM
    THEN Ok([components |-> 0, transform |-> "none"], FALSE)
    ELSE LET tp == transform_data(lengths, transform_type, f)
             cap == CappedComponents(Len(lengths), max_components)
             models == IF f.fails_from = 0 \/ f.fails_from > cap
                       THEN cap ELSE f.fails_from - 1
         IN IF component_method = "dirichlet"
            THEN (IF models < cap THEN Raise("FitError")
                  ELSE Ok([components |-> MinOf({f.ncomp, cap}), transform |-> tp], FALSE))
            ELSE (IF models = 0 THEN Ok([components |-> 0, transform |-> tp], FALSE)
                  ELSE Ok([components |-> MinOf({f.ncomp, models}), transform |-> tp], FALSE))

\* int(round(x)) of a rational x >= 0: Python rounds a half to the even integer
RoundHalfEven(x) ==
    LET q == x[1] \div x[2]
        twice == 2 * (x[1] % x[2])
    IN IF twice < x[2] THEN q
       ELSE IF twice > x[2] THEN q + 1
       ELSE IF q % 2 = 0 THEN q ELSE q + 1

\* max(original_cutoff, 100), min(original_cutoff, 5000), int(round(original_cutoff))
ReasonableCutoff(x) ==
    RoundHalfEven(IF x[1] < MinReasonableCutoff * x[2] THEN <<MinReasonableCutoff, 1>>
                  ELSE IF x[1] > MaxReasonableCutoff * x[2] THEN <<MaxReasonableCutoff, 1>>
                  ELSE x)

\* The cutoff in transformed space between two components (mean, std, weight),
\* for the methods that take the midpoint of the means: "midpoint", an unknown
\* method, and "intersection" of components of equal std
MidpointCutoff(comp1, comp2) == Rat(comp1.mean + comp2.mean, 2)

\* gmm_cutoffs of identify_natural_cutoffs for the mean-sorted components of
\* the fitted mixture and the transform_params of the analysis
gmm_cutoffs(components, params) ==
    IF Len(components) < 2 THEN << >>
    ELSE <<ReasonableCutoff(inverse_transform_value(
               Real(MidpointCutoff(components[1], components[2])), params))>>

\* Variant of identify_natural_cutoffs: the cutoff is not capped at 5000
identify_natural_cutoffsUncapped(lengths, method, transform_type, component_method, f) ==
    IF lengths = << >>
    THEN Ok([recommended |-> << >>, component_count |-> 0, transform |-> "none"], FALSE)
    ELSE LET mm == detect_multimodality(lengths, 10, transform_type, component_method, f)
         IN IF ~mm.ok THEN mm
            ELSE IF mm.value.components < 2
            THEN Ok([recommended |-> << >>, component_count |-> mm.value.components,
                     transform |-> mm.value.transform], FALSE)
            ELSE Ok([recommended |-> <<MaxOf({f.cutoff, MinReasonableCutoff})>>,
                     component_count |-> mm.value.components,
                     transform |-> mm.value.transform], FALSE)

identify_natural_cutoffs(lengths, method, transform_type, component_method, f) ==
    IF lengths = << >>
    THEN Ok([recommended |-> << >>, component_count |-> 0, transform |-> "none"], FALSE)
    ELSE LET mm == detect_multimodality(lengths, 10, transform_type, component_method, f)
         IN IF ~mm.ok THEN mm
            ELSE IF mm.value.components < 2
            THEN Ok([recommended |-> << >>, component_count |-> mm.value.components,
                     transform |-> mm.value.transform], FALSE)
            ELSE LET clamped == MinOf({MaxOf({f.cutoff, MinReasonableCutoff}),
                                       MaxReasonableCutoff})
                 IN Ok([recommended |-> <<clamped>>,
                        component_count |-> mm.value.components,
                        transform |-> mm.value.transform], FALSE)

-----------------------------------------------------------------------------
(* backend/filters/__init__.py *)

Methods == {"min_max", "iqr", "zscore", "adaptive", "n50_optimize", "natural"}

\* Variant of UnknownMethod: the call returns its argument
UnknownMethodPassesThrough(seq_lengths, method) == Ok(seq_lengths, TRUE)

\* the final else branch of both functions: raise ValueError(...)
UnknownMethod(seq_lengths, method) == Raise("ValueError")

\* the n50_optimize branch of apply_optimal_filter: min_cutoff and max_cutoff
\* are read from the keyword arguments, the step is the default one
n50_optimize(seq_lengths, kwargs) ==
    LET best == find_optimal_n50_cutoff(Values(seq_lengths), Opt(kwargs, "min_cutoff"),
                                        Opt(kwargs, "max_cutoff"), DefaultStep)
    IN Ok(filter_by_length(seq_lengths, <<best[1]>>, None), FALSE)

apply_optimal_filter(seq_lengths, method, kwargs, f) ==
    LET lengths == Values(seq_lengths)
    IN CASE method = "min_max" ->
              Ok(filter_by_length(seq_lengths, Opt(kwargs, "min_length"),
                                  Opt(kwargs, "max_length")), FALSE)
         [] method = "iqr" -> filter_by_iqr(seq_lengths, Get(kwargs, "k", 3))
         [] method = "zscore" -> filter_by_zscore(seq_lengths, Get(kwargs, "threshold", 5))
         [] method = "adaptive" -> filter_by_adaptive_threshold(seq_lengths)
         [] method = "n50_optimize" -> n50_optimize(seq_lengths, kwargs)
         [] method = "natural" ->
              LET found == identify_natural_cutoffs(lengths,
                               Get(kwargs, "gmm_method", "midpoint"),
                               Get(kwargs, "transform", "box-cox"),
                               Get(kwargs, "component_method", "bic"), f)
              IN IF ~found.ok THEN found
                 ELSE IF found.value.recommended = << >> THEN Ok(seq_lengths, TRUE)
                 ELSE Ok(filter_by_length(seq_lengths, <<found.value.recommended[1]>>, None),
                         FALSE)
         [] OTHER -> UnknownMethod(seq_lengths, method)

\* An outcome of apply_optimal_filter_with_details: the filtered dict and the
\* top-level keys of the process_details dict returned with it
Detailed(out, keys) ==
    [ok |-> out.ok, value |-> out.value, alias |-> out.alias, exc |-> out.exc,
     details |-> IF out.ok THEN keys ELSE {}]

\* the outcome d of the delegate's details variant, with what adaptive_details
\* records of the selection when the call returns
AdaptiveRecorded(d, selection) ==
    IF d.ok THEN [adaptive_details |-> selection] @@ d ELSE d

\* The adaptive branch of apply_optimal_filter_with_details once the method and
\* its factor c are selected
AdaptiveWithDetails(seq_lengths, c) ==
    IF c.selected_method = "iqr"
    THEN AdaptiveRecorded(Detailed(filter_by_iqr(seq_lengths, c.factor),
                                   {"method", "params", "adaptive_details"}),
                          [selected_method |-> "iqr", k_factor |-> c.factor])
    ELSE AdaptiveRecorded(Detailed(filter_by_zscore(seq_lengths, c.factor),
                                   {"method", "params", "adaptive_details"}),
                          [selected_method |-> "zscore", z_factor |-> c.factor])

\* The statistics put into process_details are computed before the filter is
\* called; they decide neither the filtered dict nor whether the call returns.
apply_optimal_filter_with_details(seq_lengths, method, kwargs, f) ==
    LET lengths == Values(seq_lengths)
        base == {"method", "params"}
    IN CASE method = "min_max" ->
              Detailed(Ok(filter_by_length(seq_lengths, Opt(kwargs, "min_length"),
                                           Opt(kwargs, "max_length")), FALSE),
                       base \cup {"length_distribution", "removed_sequences"})
         [] method = "iqr" ->
              Detailed(filter_by_iqr(seq_lengths, Get(kwargs, "k", 3)),
                       base \cup {"iqr_details", "outliers"})
         [] method = "zscore" ->
              Detailed(filter_by_zscore(seq_lengths, Get(kwargs, "threshold", 5)),
                       base \cup {"zscore_details", "outliers"})
         [] method = "adaptive" ->
              AdaptiveWithDetails(seq_lengths, AdaptiveChoice(lengths))
         [] method = "n50_optimize" ->
              LET best == find_optimal_n50_cutoff(lengths, Opt(kwargs, "min_cutoff"),
                                                  Opt(kwargs, "max_cutoff"),
                                                  Get(kwargs, "step", DefaultStep))
              IN Detailed(Ok(filter_by_length(seq_lengths, <<best[1]>>, None), FALSE),
                          base \cup {"n50_optimize_details"})
         [] method = "natural" ->
              LET found == identify_natural_cutoffs(lengths,
                               Get(kwargs, "gmm_method", "midpoint"),
                               Get(kwargs, "transform", "box-cox"),
                               Get(kwargs, "component_method", "bic"), f)
              IN IF ~found.ok THEN Detailed(found, {})
                 ELSE IF found.value.recommended = << >>
                 THEN Detailed(Ok(seq_lengths, TRUE), {"natural_breakpoint_details"})
                 ELSE Detailed(Ok(filter_by_length(seq_lengths,
                                                   <<found.value.recommended[1]>>, None),
                                  FALSE),
                               base \cup {"natural_breakpoint_details"})
         [] OTHER -> Detailed(UnknownMethod(seq_lengths, method), {})

-----------------------------------------------------------------------------
(* backend/core/pipeline.py *)

Size(m) == Cardinality(DOMAIN m)

\* FilterStage.__init__
FilterStage(method, params) ==
    [method |-> method, params |-> params, filtered_count |-> 0, original_count |-> 0]

\* Variant of FilterStage_apply: the counts add up over the calls
FilterStage_applyAdding(stage, seq_lengths, f) ==
    LET out == apply_optimal_filter(seq_lengths, stage.method, stage.params, f)
    IN [stage |-> [stage EXCEPT !.original_count = @ + Size(seq_lengths),
                                !.filtered_count = IF out.ok THEN @ + Size(out.value) ELSE @],
        out |-> out]

\* Variant of FilterStage_apply: a stage that has been applied before returns
\* its input
FilterStage_applyOnce(stage, seq_lengths, f) ==
    LET out == IF stage.original_count > 0 THEN Ok(seq_lengths, TRUE)
               ELSE apply_optimal_filter(seq_lengths, stage.method, stage.params, f)
    IN [stage |-> [stage EXCEPT !.original_count = Size(seq_lengths),
                                !.filtered_count = IF out.ok THEN Size(out.value) ELSE @],
        out |-> out]

\* FilterStage.apply once apply_optimal_filter has ended with `out`: the stage
\* object after the call, and the call's outcome
FilterStage_applied(stage, seq_lengths, out) ==
    [stage |-> [stage EXCEPT !.original_count = Size(seq_lengths),
                             !.filtered_count = IF out.ok THEN Size(out.value) ELSE @],
     out |-> out]

\* FilterStage.apply
FilterStage_apply(stage, seq_lengths, f) ==
    FilterStage_applied(stage, seq_lengths,
                        apply_optimal_filter(seq_lengths, stage.method, stage.params, f))

\* a percentage (before - after) / before * 100 as <<numerator, denominator>>
ReductionPercent(before, after) ==
    IF before > 0 THEN <<(before - after) * 100, before>> ELSE <<0, 1>>

FilterStage_get_stats(stage) ==
    [method |-> stage.method,
     params |-> stage.params,
     sequences_before |-> stage.original_count,
     sequences_after |-> stage.filtered_count,
     reduction_percent |-> ReductionPercent(stage.original_count, stage.filtered_count)]

\* Variant of deepcopy: no copy is made
deepcopyAlias(src, fresh) == src

\* copy.deepcopy(src): a new object, stored at `fresh`
deepcopy(src, fresh) == fresh

\* Variant of RunStages: every stage is given the run's input
RECURSIVE RunStagesOnInput(_, _, _, _, _, _)
RunStagesOnInput(stgs, i, cur, ref, tr, f) ==
    IF i > Len(stgs)
    THEN [ok |-> TRUE, stages |-> stgs,
          value |-> IF tr = << >> THEN cur ELSE tr[Len(tr)].after,
          ref |-> ref, trace |-> tr, exc |-> "none"]
    ELSE LET a == FilterStage_apply(stgs[i], cur, f)
             stgs2 == [stgs EXCEPT ![i] = a.stage]
             tr2 == Append(tr, [stage |-> i, before |-> cur, ok |-> a.out.ok,
                                after |-> a.out.value])
         IN IF ~a.out.ok
            THEN [ok |-> FALSE, stages |-> stgs2, value |-> cur, ref |-> ref,
                  trace |-> tr2, exc |-> a.out.exc]
            ELSE RunStagesOnInput(stgs2, i + 1, cur, "res", tr2, f)

\* The loop of FilterPipeline.run from stage i on.  cur is the content of the
\* local `result`, ref the object it refers to.  StageApplied is the rest of the
\* loop once stage i has been applied with outcome a.
RECURSIVE RunStages(_, _, _, _, _, _)
RECURSIVE StageApplied(_, _, _, _, _, _, _)
StageApplied(stgs, i, cur, ref, tr, f, a) ==
    IF ~a.out.ok
    THEN [ok |-> FALSE, stages |-> [stgs EXCEPT ![i] = a.stage], value |-> cur,
          ref |-> ref,
          trace |-> Append(tr, [stage |-> i, before |-> cur, ok |-> FALSE,
                                after |-> a.out.value]),
          exc |-> a.out.exc]
    ELSE RunStages([stgs EXCEPT ![i] = a.stage], i + 1, a.out.value,
                   IF a.out.alias THEN ref ELSE "res",
                   Append(tr, [stage |-> i, before |-> cur, ok |-> TRUE,
                               after |-> a.out.value]), f)

RunStages(stgs, i, cur, ref, tr, f) ==
    IF i > Len(stgs)
    THEN [ok |-> TRUE, stages |-> stgs, value |-> cur, ref |-> ref, trace |-> tr,
          exc |-> "none"]
    ELSE StageApplied(stgs, i, cur, ref, tr, f, FilterStage_apply(stgs[i], cur, f))

\* FilterPipeline.get_report, of a pipeline with the given fields.  The
\* visualization summaries are carried by the length lists they are computed from.
ReportOf(h, stgs, inp, res) ==
    IF inp = "None" \/ res = "None"
    THEN [error |-> "Pipeline has not been run yet"]
    ELSE [input_sequence_count |-> Size(h[inp]),
          output_sequence_count |-> Size(h[res]),
          total_reduction_percent |-> ReductionPercent(Size(h[inp]), Size(h[res])),
          stages |-> [i \in 1..Len(stgs) |-> FilterStage_get_stats(stgs[i])],
          visualization_data |-> [before |-> SortedAsc(Values(h[inp])),
                                  after |-> SortedAsc(Values(h[res]))]]

get_report == ReportOf(heap, stages, input_sequences, result_sequences)

-----------------------------------------------------------------------------
(* backend/utils/config_validator.py *)

(* The value of a numeric parameter in a configuration: a number n (for k and
   threshold, twice the number), or a value such as "abc" for which int() and
   float() raise ValueError or TypeError.  The other parameters are strings. *)
Num(n) == [num |-> TRUE, v |-> n]

NotANumber == [num |-> FALSE, v |-> 0]

Has(params, key) == key \in DOMAIN params

Rejected(error) == [ok |-> FALSE, error |-> error, stage |-> << >>]

Accepted(method, validated_params) ==
    [ok |-> TRUE, error |-> "None",
     stage |-> [method |-> method, params |-> validated_params]]

NumericKeys ==
    {"min_length", "max_length", "k", "threshold", "min_cutoff", "max_cutoff", "step"}

\* int(params[key]) or float(params[key]) for the keys present
Converted(params, keys) == [key \in (DOMAIN params \cap keys) |-> Num(params[key].v)]

\* the keyword arguments **params that a validated stage gives to add_stage
Keywords(params) ==
    [key \in DOMAIN params |-> IF key \in NumericKeys THEN params[key].v ELSE params[key]]

\* the first parameter of the n50_optimize stage, in the order min_cutoff,
\* max_cutoff, step, that is no number or is not positive; "" if there is none
FirstBadN50Param(params, names) ==
    LET bad == {i \in 1..Len(names) :
                  Has(params, names[i]) /\ (~params[names[i]].num \/ params[names[i]].v <= 0)}
    IN IF bad = {} THEN "" ELSE names[MinOf(bad)]

\* the body of the loop of validate_pipeline_config, for one stage
ValidateStage(stage) ==
    IF ~Has(stage, "method") THEN Rejected("Method must be specified for each stage")
    ELSE IF stage.method \notin Methods THEN Rejected("Invalid method")
    ELSE LET params == IF Has(stage, "params") THEN stage.params ELSE << >>
         IN CASE stage.method = "min_max" ->
                   IF Has(params, "min_length") /\ ~params.min_length.num
                   THEN Rejected("min_length must be an integer")
                   ELSE IF Has(params, "min_length") /\ params.min_length.v < 0
                   THEN Rejected("min_length cannot be negative")
                   ELSE IF Has(params, "max_length") /\ ~params.max_length.num
                   THEN Rejected("max_length must be an integer")
                   ELSE IF Has(params, "max_length") /\ params.max_length.v < 0
                   THEN Rejected("max_length cannot be negative")
                   ELSE IF /\ Has(params, "min_length")
                           /\ Has(params, "max_length")
                           /\ params.min_length.v > params.max_length.v
                   THEN Rejected("min_length cannot be greater than max_length")
                   ELSE Accepted("min_max", Converted(params, {"min_length", "max_length"}))
              [] stage.method = "iqr" ->
                   IF ~Has(params, "k") THEN Accepted("iqr", [k |-> Num(3)])
                   ELSE IF ~params.k.num THEN Rejected("k must be a number")
                   ELSE IF params.k.v <= 0 THEN Rejected("k must be positive")
                   ELSE Accepted("iqr", [k |-> Num(params.k.v)])
              [] stage.method = "zscore" ->
                   IF ~Has(params, "threshold") THEN Accepted("zscore", [threshold |-> Num(5)])
                   ELSE IF ~params.threshold.num THEN Rejected("threshold must be a number")
                   ELSE IF params.threshold.v <= 0 THEN Rejected("threshold must be positive")
                   ELSE Accepted("zscore", [threshold |-> Num(params.threshold.v)])
              [] stage.method = "natural" ->
                   IF /\ Has(params, "gmm_method")
                      /\ params.gmm_method \notin {"midpoint", "intersection", "probability",
                                                    "valley"}
                   THEN Rejected("Invalid GMM method")
                   ELSE IF /\ Has(params, "component_method")
                           /\ params.component_method \notin {"bic", "aic", "loo", "dirichlet"}
                   THEN Rejected("Invalid component method")
                   ELSE IF /\ Has(params, "transform")
                           /\ params.transform \notin {"box-cox", "log", "none"}
                   THEN Rejected("Invalid transform")
                   ELSE Accepted("natural",
                            [gmm_method |-> Get(params, "gmm_method", "midpoint"),
                             component_method |-> Get(params, "component_method", "bic"),
                             transform |-> Get(params, "transform", "box-cox")])
              [] stage.method = "n50_optimize" ->
                   LET bad == FirstBadN50Param(params, <<"min_cutoff", "max_cutoff", "step">>)
                   IN IF bad # ""
                      THEN Rejected(IF params[bad].num THEN "must be positive"
                                    ELSE "must be a int")
                      ELSE IF /\ Has(params, "min_cutoff")
                              /\ Has(params, "max_cutoff")
                              /\ params.min_cutoff.v >= params.max_cutoff.v
                      THEN Rejected("min_cutoff must be less than max_cutoff")
                      ELSE Accepted("n50_optimize",
                               Converted(params, {"min_cutoff", "max_cutoff", "step"}))
              [] OTHER -> Accepted(stage.method, << >>)

\* Variant of ValidateStages: a stage that fails validation is left out
RECURSIVE ValidateStagesLeavingOut(_, _, _)
ValidateStagesLeavingOut(config, i, validated_config) ==
    IF i > Len(config) THEN [ok |-> TRUE, error |-> "None", config |-> validated_config]
    ELSE LET v == ValidateStage(config[i])
         IN ValidateStagesLeavingOut(config, i + 1,
                IF v.ok THEN Append(validated_config, v.stage) ELSE validated_config)

\* the loop of validate_pipeline_config from stage i on: the first stage that
\* fails validation ends it with (False, error, [])
RECURSIVE ValidateStages(_, _, _)
ValidateStages(config, i, validated_config) ==
    IF i > Len(config) THEN [ok |-> TRUE, error |-> "None", config |-> validated_config]
    ELSE LET v == ValidateStage(config[i])
         IN IF ~v.ok THEN [ok |-> FALSE, error |-> v.error, config |-> << >>]
            ELSE ValidateStages(config, i + 1, Append(validated_config, v.stage))

\* (is_valid, error_message, validated_config)
validate_pipeline_config(config) ==
    IF config = << >>
    THEN [ok |-> FALSE, error |-> "Configuration cannot be empty", config |-> << >>]
    ELSE ValidateStages(config, 1, << >>)

(* QUAST options.  A Python value is carried with its type: an int n; a float
   (n its integer part, whole saying whether it has no fractional part); a
   bool (n is 1 for True, 0 for False); a str s; None; or a list of strings. *)
PyInt(n) == [type |-> "int", n |-> n, whole |-> TRUE, s |-> "", items |-> << >>]

PyFloat(n, whole) == [type |-> "float", n |-> n, whole |-> whole, s |-> "", items |-> << >>]

PyBool(b) ==
    [type |-> "bool", n |-> IF b THEN 1 ELSE 0, whole |-> TRUE, s |-> "", items |-> << >>]

PyStr(s) == [type |-> "str", n |-> 0, whole |-> FALSE, s |-> s, items |-> << >>]

PyNone == [type |-> "NoneType", n |-> 0, whole |-> FALSE, s |-> "", items |-> << >>]

PyList(l) == [type |-> "list", n |-> 0, whole |-> FALSE, s |-> "", items |-> l]

\* QUAST_OPTIONS_PARAMS: the keys present for each option
QUAST_OPTIONS_PARAMS ==
    [ min_contig |-> [type |-> "int", min |-> 0, default |-> PyInt(500)],
      threads |-> [type |-> "int", min |-> 1, max |-> 32, default |-> PyInt(4)],
      gene_finding |-> [type |-> "bool", default |-> PyBool(TRUE)],
      conserved_genes_finding |-> [type |-> "bool", default |-> PyBool(TRUE)],
      scaffold_gap_max_size |-> [type |-> "int", min |-> 1, default |-> PyInt(1000)],
      reference_genome |-> [type |-> "str", required |-> FALSE],
      labels |-> [type |-> "list", required |-> FALSE],
      large_genome |-> [type |-> "bool", default |-> PyBool(FALSE)],
      eukaryote |-> [type |-> "bool", default |-> PyBool(FALSE)],
      fungus |-> [type |-> "bool", default |-> PyBool(FALSE)],
      prokaryote |-> [type |-> "bool", default |-> PyBool(FALSE)],
      metagenome |-> [type |-> "bool", default |-> PyBool(FALSE)],
      plots_format |-> [type |-> "str", allowed |-> {"png", "pdf", "ps"},
                        default |-> PyStr("png")],
      min_alignment |-> [type |-> "int", min |-> 0, default |-> PyInt(65)],
      ambiguity_usage |-> [type |-> "str", allowed |-> {"one", "all", "none"},
                           default |-> PyStr("one")] ]

\* isinstance(value, (int, float)): bool is a subclass of int
IsNumber(value) == value.type \in {"int", "float", "bool"}

\* int(value) of a number without fractional part
IntOf(value) == value.n

\* [item.strip() for item in s.split(',')]
SplitCommas(s) ==
    CASE s = "a, b" -> <<"a", "b">>
      [] s = "a,b,c" -> <<"a", "b", "c">>
      [] OTHER -> <<s>>

\* s.lower()
Lower(s) ==
    CASE s = "YES" -> "yes"
      [] s = "False" -> "false"
      [] OTHER -> s

OptionRejected(error) == [ok |-> FALSE, error |-> error, value |-> PyNone]

OptionChecked(value) == [ok |-> TRUE, error |-> "None", value |-> value]

\* the range validation of a converted int option
RangeChecked(cfg, value) ==
    IF Has(cfg, "min") /\ value.n < cfg.min THEN OptionRejected("must be >= min")
    ELSE IF Has(cfg, "max") /\ value.n > cfg.max THEN OptionRejected("must be <= max")
    ELSE OptionChecked(value)

\* the type and range validation of one option that is not None
ValidateOption(cfg, value) ==
    CASE cfg.type = "int" ->
           IF ~IsNumber(value) \/ ~value.whole THEN OptionRejected("must be an integer")
           ELSE RangeChecked(cfg, PyInt(IntOf(value)))
      [] cfg.type = "bool" ->
           IF value.type = "bool" THEN OptionChecked(value)
           ELSE IF value.type # "str" THEN OptionRejected("must be a boolean")
           ELSE IF Lower(value.s) \in {"true", "yes", "1"} THEN OptionChecked(PyBool(TRUE))
           ELSE IF Lower(value.s) \in {"false", "no", "0"} THEN OptionChecked(PyBool(FALSE))
           ELSE OptionRejected("has invalid boolean value")
      [] cfg.type = "str" ->
           IF value.type # "str" THEN OptionRejected("must be a string")
           ELSE IF Has(cfg, "allowed") /\ value.s \notin cfg.allowed
           THEN OptionRejected("must be one of allowed")
           ELSE OptionChecked(value)
      [] cfg.type = "list" ->
           IF value.type = "list" THEN OptionChecked(value)
           ELSE IF value.type = "str" THEN OptionChecked(PyList(SplitCommas(value.s)))
           ELSE OptionRejected("must be a list or comma-separated string")
      [] OTHER -> OptionChecked(value)

\* validated_options with the defaults of the options that it does not hold
WithDefaults(validated_options) ==
    [name \in DOMAIN validated_options \cup
              {n \in DOMAIN QUAST_OPTIONS_PARAMS : Has(QUAST_OPTIONS_PARAMS[n], "default")} |->
        IF name \in DOMAIN validated_options THEN validated_options[name]
        ELSE QUAST_OPTIONS_PARAMS[name].default]

\* The special validation of reference_genome: a path that does not exist is
\* only logged, and Path(value) takes every str
ReferenceGenomeChecked(c, path_exists) ==
    IF c.ok /\ c.value.s # "" /\ ~path_exists THEN OptionChecked(c.value) ELSE c

\* the loop of validate_quast_options over options.items(), a sequence of
\* <<name, value>> in the order of the dict, from item i on; c is the outcome
\* of the validation of item i
RECURSIVE ValidateOptions(_, _, _, _)
RECURSIVE OptionValidated(_, _, _, _, _)
OptionValidated(options, i, validated_options, path_exists, c) ==
    IF ~c.ok THEN [ok |-> FALSE, error |-> c.error, options |-> << >>]
    ELSE ValidateOptions(options, i + 1,
                         (options[i][1] :> c.value) @@ validated_options, path_exists)

ValidateOptions(options, i, validated_options, path_exists) ==
    IF i > Len(options)
    THEN [ok |-> TRUE, error |-> "None", options |-> WithDefaults(validated_options)]
    ELSE IF options[i][1] \notin DOMAIN QUAST_OPTIONS_PARAMS
    THEN [ok |-> FALSE, error |-> "Unknown QUAST parameter", options |-> << >>]
    ELSE IF options[i][2].type = "NoneType"
    THEN ValidateOptions(options, i + 1, validated_options, path_exists)
    ELSE OptionValidated(options, i, validated_options, path_exists,
             IF options[i][1] = "reference_genome"
             THEN ReferenceGenomeChecked(
                      ValidateOption(QUAST_OPTIONS_PARAMS[options[i][1]], options[i][2]),
                      path_exists)
             ELSE ValidateOption(QUAST_OPTIONS_PARAMS[options[i][1]], options[i][2]))

\* (is_valid, error_message, validated_options); path_exists is what
\* os.path.exists answers for the reference genome
validate_quast_options(options, path_exists) ==
    ValidateOptions(options, 1, << >>, path_exists)

-----------------------------------------------------------------------------
(* Bounds and inputs *)

MaxStages == 2

MaxRuns == 2

\* the dict with ids 1..Len(lengths)
MapOf(lengths) == [id \in 1..Len(lengths) |-> lengths[id]]

\* a bimodal assembly of 50 contigs
Bimodal == [id \in 1..50 |-> IF id <= 25 THEN 100 ELSE 300]

\* the dicts handed to the pipeline
InputMaps == { MapOf(<< >>), MapOf(<<2, 2, 2, 3>>), Bimodal }

StageConfigs ==
    { [method |-> "min_max", params |-> [min_length |-> 3]],
      [method |-> "iqr", params |-> [k |-> 3]],
      [method |-> "n50_optimize", params |-> [min_cutoff |-> 1, max_cutoff |-> 3, step |-> 2]],
      [method |-> "natural", params |-> << >>],
      [method |-> "natural", params |-> [component_method |-> "dirichlet"]],
      [method |-> "median", params |-> << >>] }

\* the direct calls of the filter functions: the stage configurations, and the
\* methods and parameter defaults the pipeline's stages above leave out
FilterCalls ==
    StageConfigs \cup
    { [method |-> "zscore", params |-> << >>],
      [method |-> "adaptive", params |-> << >>],
      [method |-> "n50_optimize", params |-> << >>],
      [method |-> "min_max", params |-> [max_length |-> 2]],
      [method |-> "", params |-> [min_length |-> 3]] }

NoReport == [none |-> TRUE]

NoJob == [status |-> "none"]

\* the entry upload_file makes in active_jobs: analysis says whether the
\* background task analyze_uploaded_file is still to run, scheduled whether a
\* background task run_filter_job is, results whether "results" is set
UploadedJob ==
    [status |-> "pending", config |-> << >>, message |-> "File uploaded successfully",
     analysis |-> TRUE, scheduled |-> FALSE, results |-> FALSE]

\* the job after del active_jobs[job_id]: no request finds it, the background
\* tasks added for it are still to run
Deleted(j) == [j EXCEPT !.status = "deleted"]

\* the value of `fit` while no run has called the numerical libraries
NoLibraryCall == [boxcox_raises |-> FALSE, fails_from |-> 0, ncomp |-> 0, cutoff |-> 0]

\* the library behaviours to distinguish in a run of the given stages: they
\* matter only to a "natural" stage
FitsFor(stgs) ==
    IF \E i \in 1..Len(stgs) : stgs[i].method = "natural" THEN FitOutcomes
    ELSE {NoLibraryCall}

-----------------------------------------------------------------------------
(* The pipeline and its caller *)

Init ==
    /\ heap \in {[m |-> x, in |-> << >>, res |-> << >>] : x \in InputMaps}
    /\ stages = << >>
    /\ input_sequences = "None"
    /\ result_sequences = "None"
    /\ fit = NoLibraryCall
    /\ trace = << >>
    /\ lastOp = "init"
    /\ ret = [kind |-> "none"]
    /\ runs = 0
    /\ completed = 0
    /\ run_input = << >>
    /\ finalized = NoReport
    /\ job = NoJob

\* FilterPipeline.add_stage
add_stage(c) ==
    /\ Len(stages) < MaxStages
    /\ stages' = Append(stages, FilterStage(c.method, c.params))
    /\ lastOp' = "add_stage"
    /\ ret' = [kind |-> "self"]
    /\ UNCHANGED <<heap, input_sequences, result_sequences, fit, trace, runs, completed,
                   run_input, finalized, job>>

\* The effect of FilterPipeline.run(m) on a pipeline whose stages are stgs, m
\* the caller's dict, the libraries behaving as f
FilterPipeline_run(stgs, f) ==
    /\ runs < MaxRuns
    /\ \E r \in {RunStages(stgs, 1, heap["m"], deepcopy("m", "res"), << >>, f)} :
         \E h2 \in {IF r.ok THEN [heap EXCEPT ![deepcopy("m", "in")] = heap["m"],
                                              ![r.ref] = r.value]
                     ELSE [heap EXCEPT ![deepcopy("m", "in")] = heap["m"]]} :
            /\ heap' = h2
            /\ input_sequences' = deepcopy("m", "in")
            /\ result_sequences' = IF r.ok THEN r.ref ELSE result_sequences
            /\ stages' = r.stages
            /\ trace' = r.trace
            /\ lastOp' = IF r.ok THEN "run_returned" ELSE "run_raised"
            /\ ret' = IF r.ok THEN [kind |-> "dict", ref |-> r.ref]
                      ELSE [kind |-> "exception", exc |-> r.exc]
            /\ finalized' = IF r.ok THEN ReportOf(h2, r.stages, deepcopy("m", "in"), r.ref)
                            ELSE NoReport
            /\ completed' = IF r.ok THEN completed + 1 ELSE completed
    /\ fit' = f
    /\ runs' = runs + 1
    /\ run_input' = heap["m"]

\* FilterPipeline.run(m)
run(f) ==
    /\ FilterPipeline_run(stages, f)
    /\ UNCHANGED job

\* FilterPipeline.get_report()
GetReport ==
    /\ lastOp # "get_report"
    /\ lastOp' = "get_report"
    /\ ret' = [kind |-> "report", report |-> get_report]
    /\ UNCHANGED <<heap, stages, input_sequences, result_sequences, fit, trace, runs,
                   completed, run_input, finalized, job>>

\* the caller changes its own dict after passing it to run (changes made before
\* the first run, or two changes in a row, are one choice of the dict's content)
CallerMutates(x) ==
    /\ input_sequences # "None"
    /\ lastOp # "caller_mutates"
    /\ x # heap["m"]
    /\ heap' = [heap EXCEPT !["m"] = x]
    /\ lastOp' = "caller_mutates"
    /\ ret' = [kind |-> "none"]
    /\ UNCHANGED <<stages, input_sequences, result_sequences, fit, trace, runs, completed,
                   run_input, finalized, job>>

\* A direct call apply_optimal_filter(m, c.method, **c.params) on the caller's
\* dict, or of apply_optimal_filter_with_details if detailed.  The functions read
\* no state of the pipeline, so the calls are made while it is still empty.
ApplyFilter(c, f, detailed) ==
    /\ stages = << >>
    /\ runs = 0
    /\ \E out \in {IF detailed
                    THEN apply_optimal_filter_with_details(heap["m"], c.method, c.params, f)
                    ELSE Detailed(apply_optimal_filter(heap["m"], c.method, c.params, f), {})} :
         ret' = [kind |-> "outcome", call |-> c, detailed |-> detailed, f |-> f,
                 arg |-> heap["m"], out |-> out]
    /\ lastOp' = "apply"
    /\ UNCHANGED <<heap, stages, input_sequences, result_sequences, fit, trace, runs,
                   completed, run_input, finalized, job>>

Next ==
    \/ \E c \in FilterCalls : \E f \in FitsFor(<<c>>) : \E d \in BOOLEAN : ApplyFilter(c, f, d)
    \/ \E c \in StageConfigs : add_stage(c)
    \/ \E f \in FitsFor(stages) : run(f)
    \/ GetReport
    \/ \E x \in InputMaps : CallerMutates(x)

Spec == Init /\ [][Next]_vars

-----------------------------------------------------------------------------
(* The FilteringWorkflow (backend/core/workflow.py) and the filtering job of
   the API (backend/api/main.py).  The workflow is used either directly, as in
   backend/examples/example.py (job = NoJob), or by run_filter_job for the
   job of an uploaded file.  heap["m"] is the dict get_sequence_lengths reads
   from the input file; stages, input_sequences and result_sequences are the
   fields of workflow.pipeline. *)

RawStages ==
    [ min3     |-> [method |-> "min_max", params |-> [min_length |-> Num(3)]],
      iqr      |-> [method |-> "iqr"],
      n50      |-> [method |-> "n50_optimize",
                    params |-> [min_cutoff |-> Num(1), max_cutoff |-> Num(3), step |-> Num(2)]],
      natural  |-> [method |-> "natural", params |-> [component_method |-> "dirichlet"]],
      minOverMax |-> [method |-> "min_max",
                      params |-> [min_length |-> Num(5), max_length |-> Num(2)]],
      kText    |-> [method |-> "iqr", params |-> [k |-> NotANumber]],
      median   |-> [method |-> "median", params |-> << >>],
      noMethod |-> [params |-> [min_length |-> Num(3)]],
      n50Equal |-> [method |-> "n50_optimize",
                    params |-> [min_cutoff |-> Num(3), max_cutoff |-> Num(3)]],
      loo4     |-> [method |-> "natural", params |-> [component_method |-> "loo4"]] ]

\* the configurations submitted: valid ones, and ones with an invalid stage in
\* first or in later position
PipelineConfigs ==
    { << >>,
      <<RawStages.min3>>,
      <<RawStages.iqr, RawStages.min3>>,
      <<RawStages.natural, RawStages.n50>>,
      <<RawStages.min3, RawStages.median>>,
      <<RawStages.noMethod, RawStages.min3>>,
      <<RawStages.iqr, RawStages.minOverMax>>,
      <<RawStages.kText>>,
      <<RawStages.min3, RawStages.n50Equal>>,
      <<RawStages.iqr, RawStages.loo4>> }

\* FilterPipeline() followed by add_stage for every stage of a validated config
NewPipeline(validated_config) ==
    [i \in 1..Len(validated_config) |->
        FilterStage(validated_config[i].method, Keywords(validated_config[i].params))]

InitWorkflow ==
    /\ heap \in {[m |-> x, in |-> << >>, res |-> << >>] : x \in InputMaps}
    /\ stages = << >>
    /\ input_sequences = "None"
    /\ result_sequences = "None"
    /\ fit = NoLibraryCall
    /\ trace = << >>
    /\ lastOp = "init"
    /\ ret = [kind |-> "none"]
    /\ runs = 0
    /\ completed = 0
    /\ run_input = << >>
    /\ finalized = NoReport
    /\ job \in {NoJob, UploadedJob}

\* FilteringWorkflow.configure_from_dict(config)
configure_from_dict(config) ==
    /\ job = NoJob
    /\ \E v \in {validate_pipeline_config(config)} :
         /\ ret' = [kind |-> "configured", config |-> config, success |-> v.ok,
                    error |-> v.error, stages_before |-> stages, runs_before |-> runs]
         /\ IF v.ok
            THEN /\ stages' = NewPipeline(v.config)
                 /\ input_sequences' = "None"
                 /\ result_sequences' = "None"
                 /\ finalized' = NoReport
            ELSE UNCHANGED <<stages, input_sequences, result_sequences, finalized>>
    /\ lastOp' = "configure_from_dict"
    /\ UNCHANGED <<heap, fit, trace, runs, completed, run_input, job>>

\* FilteringWorkflow.run(): self.pipeline.run(self.seq_lengths); an exception
\* of the pipeline is returned as {"error": ...}
FilteringWorkflow_run(f) ==
    /\ job = NoJob
    /\ FilterPipeline_run(stages, f)
    /\ UNCHANGED job

\* POST /upload: the job entry is made and its analysis is added as a
\* background task
upload_file ==
    /\ job = NoJob
    /\ lastOp = "init"
    /\ job' = UploadedJob
    /\ lastOp' = "upload_file"
    /\ ret' = [kind |-> "http", code |-> 200]
    /\ UNCHANGED <<heap, stages, input_sequences, result_sequences, fit, trace, runs,
                   completed, run_input, finalized>>

\* analyze_uploaded_file, the background task of the upload; it returns at once
\* if the job is no longer in active_jobs
analyze_uploaded_file(analysed) ==
    /\ job # NoJob
    /\ job.analysis
    /\ job' = IF job.status = "deleted" THEN [job EXCEPT !.analysis = FALSE]
              ELSE [job EXCEPT !.status = IF analysed THEN "completed" ELSE "failed",
                               !.message = IF analysed THEN "Analysis completed"
                                           ELSE "Analysis failed",
                               !.analysis = FALSE]
    /\ lastOp' = "analyze_uploaded_file"
    /\ ret' = [kind |-> "none"]
    /\ UNCHANGED <<heap, stages, input_sequences, result_sequences, fit, trace, runs,
                   completed, run_input, finalized>>

\* POST /configure/{job_id}
configure_filter(config) ==
    /\ job # NoJob
    /\ \E v \in {validate_pipeline_config(config)} :
         IF job.status = "deleted"
         THEN /\ ret' = [kind |-> "http", code |-> 404, config |-> config,
                         config_before |-> job.config, detail |-> "Job not found"]
              /\ UNCHANGED job
         ELSE IF job.status \notin {"completed", "pending"}
         THEN /\ ret' = [kind |-> "http", code |-> 400, config |-> config,
                         config_before |-> job.config, detail |-> "status"]
              /\ UNCHANGED job
         ELSE IF ~v.ok
         THEN /\ ret' = [kind |-> "http", code |-> 400, config |-> config,
                         config_before |-> job.config, detail |-> v.error]
              /\ UNCHANGED job
         ELSE /\ ret' = [kind |-> "http", code |-> 200, config |-> config,
                         config_before |-> job.config, detail |-> "None"]
              /\ job' = [job EXCEPT !.config = v.config,
                                    !.message = "Filter configuration validated and stored"]
    /\ lastOp' = "configure_filter"
    /\ UNCHANGED <<heap, stages, input_sequences, result_sequences, fit, trace, runs,
                   completed, run_input, finalized>>

\* Variant of execute_filter: the status of the job is not examined
execute_filterAnyStatus ==
    /\ job # NoJob
    /\ IF job.status = "deleted"
       THEN /\ ret' = [kind |-> "http", code |-> 404]
            /\ UNCHANGED job
       ELSE IF job.config = << >>
       THEN /\ ret' = [kind |-> "http", code |-> 400]
            /\ UNCHANGED job
       ELSE /\ ret' = [kind |-> "http", code |-> 200]
            /\ job' = [job EXCEPT !.status = "processing",
                                  !.message = "Filter execution started",
                                  !.scheduled = TRUE]
    /\ lastOp' = "execute_filter"
    /\ UNCHANGED <<heap, stages, input_sequences, result_sequences, fit, trace, runs,
                   completed, run_input, finalized>>

\* POST /filter/{job_id}
execute_filter ==
    /\ job # NoJob
    /\ IF job.status = "deleted"
       THEN /\ ret' = [kind |-> "http", code |-> 404]
            /\ UNCHANGED job
       ELSE IF job.status # "completed" \/ job.config = << >>
       THEN /\ ret' = [kind |-> "http", code |-> 400]
            /\ UNCHANGED job
       ELSE /\ ret' = [kind |-> "http", code |-> 200]
            /\ job' = [job EXCEPT !.status = "processing",
                                  !.message = "Filter execution started",
                                  !.scheduled = TRUE]
    /\ lastOp' = "execute_filter"
    /\ UNCHANGED <<heap, stages, input_sequences, result_sequences, fit, trace, runs,
                   completed, run_input, finalized>>

\* run_filter_job, the background task of execute_filter: a new workflow is
\* configured from the job's config and run; written says whether the output
\* files that workflow.run makes after the pipeline could be written
run_filter_job(f, written) ==
    /\ job # NoJob
    /\ job.scheduled
    /\ \E v \in {validate_pipeline_config(job.config)} :
         IF job.status = "deleted"
         THEN /\ job' = [job EXCEPT !.scheduled = FALSE]
              /\ lastOp' = "run_filter_job"
              /\ ret' = [kind |-> "none"]
              /\ UNCHANGED <<heap, stages, input_sequences, result_sequences, fit, trace,
                             runs, completed, run_input, finalized>>
         ELSE IF ~v.ok
         THEN /\ job' = [job EXCEPT !.status = "failed", !.message = "Configuration error",
                                    !.scheduled = FALSE]
              /\ stages' = << >>
              /\ input_sequences' = "None"
              /\ result_sequences' = "None"
              /\ finalized' = NoReport
              /\ trace' = << >>
              /\ lastOp' = "run_filter_job"
              /\ ret' = [kind |-> "none"]
              /\ UNCHANGED <<heap, fit, runs, completed, run_input>>
         ELSE /\ FilterPipeline_run(NewPipeline(v.config), f)
              /\ job' = [job EXCEPT !.status = IF lastOp' = "run_returned" /\ written
                                               THEN "completed" ELSE "failed",
                                    !.message = IF lastOp' # "run_returned"
                                                THEN "Error running filter pipeline"
                                                ELSE IF written
                                                THEN "Filtering completed successfully"
                                                ELSE "Error generating output file",
                                    !.scheduled = FALSE,
                                    !.results = IF lastOp' = "run_returned" /\ written
                                                THEN TRUE ELSE @]

\* GET /jobs/{job_id}
get_job_status ==
    /\ job # NoJob
    /\ ret' = IF job.status = "deleted" THEN [kind |-> "http", code |-> 404]
              ELSE [kind |-> "http", code |-> 200, status |-> job.status,
                    message |-> job.message]
    /\ lastOp' = "get_job_status"
    /\ UNCHANGED <<heap, stages, input_sequences, result_sequences, fit, trace, runs,
                   completed, run_input, finalized, job>>

\* GET /results/{job_id}: the summary is returned if the status is completed and
\* results are stored, the status and the message alone if not
get_filter_results ==
    /\ job # NoJob
    /\ ret' = IF job.status = "deleted" THEN [kind |-> "http", code |-> 404]
              ELSE [kind |-> "http", code |-> 200, status |-> job.status,
                    summary |-> job.status = "completed" /\ job.results]
    /\ lastOp' = "get_filter_results"
    /\ UNCHANGED <<heap, stages, input_sequences, result_sequences, fit, trace, runs,
                   completed, run_input, finalized, job>>

\* DELETE /jobs/{job_id}
delete_job ==
    /\ job # NoJob
    /\ IF job.status = "deleted"
       THEN /\ ret' = [kind |-> "http", code |-> 404]
            /\ UNCHANGED job
       ELSE /\ ret' = [kind |-> "http", code |-> 200]
            /\ job' = Deleted(job)
    /\ lastOp' = "delete_job"
    /\ UNCHANGED <<heap, stages, input_sequences, result_sequences, fit, trace, runs,
                   completed, run_input, finalized>>

NextWorkflow ==
    \/ \E config \in PipelineConfigs : configure_from_dict(config)
    \/ \E f \in FitsFor(stages) : FilteringWorkflow_run(f)
    \/ upload_file
    \/ \E analysed \in BOOLEAN : analyze_uploaded_file(analysed)
    \/ \E config \in PipelineConfigs : configure_filter(config)
    \/ execute_filter
    \/ \E f \in FitOutcomes : \E written \in BOOLEAN : run_filter_job(f, written)
    \/ get_job_status
    \/ get_filter_results
    \/ delete_job

SpecWorkflow == InitWorkflow /\ [][NextWorkflow]_vars

-----------------------------------------------------------------------------
(* The statistics and filter functions called directly, each once on the
   lengths of heap["m"]; ret keeps the arguments and the value returned. *)

\* the longest list of lengths that is enumerated in full
MaxLen == 4

\* the lists over S of length at most n
ListsUpTo(S, n) == UNION {[1..k -> S] : k \in 0..n}

ShortLengths == {1, 2, 3, 5}

\* ten sequences of length 100 and ninety of length 10
TenLongNinetyShort == [i \in 1..100 |-> IF i <= 10 THEN 100 ELSE 10]

\* lengths around the trial cutoffs 0, 10, 20, 30 of the retention search
TensLengths == {9, 20, 21, 40}

\* the dataset of the IQR example
IqrExample == <<1, 2, 3, 4, 5, 100>>

\* right-skewed lengths: n - 1 sequences of lengths 1, 2, 3 in turn, and one of
\* length 100
OneLongAmong(n) == [i \in 1..n |-> IF i = n THEN 100 ELSE 1 + (i % 3)]

\* symmetric lengths: n - 2 sequences of lengths 50 + d and 50 - d in turn, one of
\* length 14 and one of length 86
TwoOutliersAmong(n, d) ==
    [i \in 1..n |-> IF i = n THEN 86 ELSE IF i = n - 1 THEN 14
                    ELSE IF i % 2 = 0 THEN 50 - d ELSE 50 + d]

\* n contigs of lengths 50, 99, 100, 300, 5000 and 6000 in turn
WideRange(n) == [i \in 1..n |-> <<50, 99, 100, 300, 5000, 6000>>[1 + (i % 6)]]

LengthLists ==
    ListsUpTo(ShortLengths, MaxLen) \cup ListsUpTo(TensLengths, MaxLen)
    \cup {TenLongNinetyShort, IqrExample, OneLongAmong(10), OneLongAmong(20),
          TwoOutliersAmong(13, 1), TwoOutliersAmong(62, 10)}

InitCalls ==
    /\ heap \in {[m |-> MapOf(l), in |-> << >>, res |-> << >>] : l \in LengthLists}
    /\ stages = << >>
    /\ input_sequences = "None"
    /\ result_sequences = "None"
    /\ fit = NoLibraryCall
    /\ trace = << >>
    /\ lastOp = "init"
    /\ ret = [kind |-> "none"]
    /\ runs = 0
    /\ completed = 0
    /\ run_input = << >>
    /\ finalized = NoReport
    /\ job = NoJob

\* the arguments <<min_cutoff, max_cutoff, step>> given to the N50 search
N50SearchArgs ==
    ({None, <<1>>, <<2>>} \X {None, <<3>>, <<5>>} \X {1, 2, 10})
    \cup {<<(<<50>>), (<<100>>), 10>>, <<(<<5>>), (<<3>>), 1>>}

\* find_optimal_n50_cutoff(lengths, min_cutoff, max_cutoff, step)
CallFindOptimalN50Cutoff(min_cutoff, max_cutoff, step) ==
    /\ lastOp = "init"
    /\ \E lengths \in {Values(heap["m"])} :
         ret' = [kind |-> "call", lengths |-> lengths, min_cutoff |-> min_cutoff,
                 max_cutoff |-> max_cutoff, step |-> step,
                 out |-> find_optimal_n50_cutoff(lengths, min_cutoff, max_cutoff, step)]
    /\ lastOp' = "find_optimal_n50_cutoff"
    /\ UNCHANGED <<heap, stages, input_sequences, result_sequences, fit, trace, runs,
                   completed, run_input, finalized, job>>

\* the retention percentages given to the retention search
Percentages == {0, 50, 83, 90, 100}

\* optimize_n50_l50_tradeoff(lengths, min_sequence_pct, min_length_pct)
CallOptimizeN50L50Tradeoff(min_sequence_pct, min_length_pct) ==
    /\ lastOp = "init"
    /\ \E lengths \in {Values(heap["m"])} :
         ret' = [kind |-> "call", lengths |-> lengths,
                 min_sequence_pct |-> min_sequence_pct, min_length_pct |-> min_length_pct,
                 out |-> optimize_n50_l50_tradeoff(lengths, min_sequence_pct, min_length_pct)]
    /\ lastOp' = "optimize_n50_l50_tradeoff"
    /\ UNCHANGED <<heap, stages, input_sequences, result_sequences, fit, trace, runs,
                   completed, run_input, finalized, job>>

\* calculate_n50(lengths)
CallCalculateN50 ==
    /\ lastOp = "init"
    /\ \E lengths \in {Values(heap["m"])} :
         ret' = [kind |-> "call", lengths |-> lengths, out |-> calculate_n50(lengths)]
    /\ lastOp' = "calculate_n50"
    /\ UNCHANGED <<heap, stages, input_sequences, result_sequences, fit, trace, runs,
                   completed, run_input, finalized, job>>

\* calculate_l50(lengths)
CallCalculateL50 ==
    /\ lastOp = "init"
    /\ \E lengths \in {Values(heap["m"])} :
         ret' = [kind |-> "call", lengths |-> lengths, out |-> calculate_l50(lengths)]
    /\ lastOp' = "calculate_l50"
    /\ UNCHANGED <<heap, stages, input_sequences, result_sequences, fit, trace, runs,
                   completed, run_input, finalized, job>>

\* the keyword arguments given to the min_max method
MinMaxArgs ==
    { << >>, [min_length |-> 2], [max_length |-> 3], [min_length |-> 2, max_length |-> 3],
      [min_length |-> 3, max_length |-> 3], [min_length |-> 5, max_length |-> 2],
      [min_length |-> 20, max_length |-> 21], [min_length |-> 0] }

\* apply_optimal_filter(m, "min_max", **kwargs)
CallMinMax(kwargs) ==
    /\ lastOp = "init"
    /\ ret' = [kind |-> "call", m |-> heap["m"], kwargs |-> kwargs,
               out |-> apply_optimal_filter(heap["m"], "min_max", kwargs, NoLibraryCall)]
    /\ lastOp' = "min_max"
    /\ UNCHANGED <<heap, stages, input_sequences, result_sequences, fit, trace, runs,
                   completed, run_input, finalized, job>>

\* the bounds given to filter_by_length
BoundArgs == {None, <<2>>, <<3>>, <<20>>}

\* filter_by_length(m, min_length, max_length)
CallFilterByLength(min_length, max_length) ==
    /\ lastOp = "init"
    /\ ret' = [kind |-> "call", first |-> heap["m"], m |-> heap["m"],
               min_length |-> min_length, max_length |-> max_length,
               out |-> filter_by_length(heap["m"], min_length, max_length)]
    /\ lastOp' = "filter_by_length"
    /\ UNCHANGED <<heap, stages, input_sequences, result_sequences, fit, trace, runs,
                   completed, run_input, finalized, job>>

\* filter_by_length with the same bounds on the dict the last call returned
FilterByLengthAgain ==
    /\ lastOp = "filter_by_length"
    /\ ret' = [ret EXCEPT !.m = ret.out,
                          !.out = filter_by_length(ret.out, ret.min_length, ret.max_length)]
    /\ lastOp' = "filter_by_length_again"
    /\ UNCHANGED <<heap, stages, input_sequences, result_sequences, fit, trace, runs,
                   completed, run_input, finalized, job>>

\* the keyword arguments given to the n50_optimize method
N50OptimizeArgs ==
    { << >>,
      [min_cutoff |-> 0],
      [min_cutoff |-> 3, max_cutoff |-> 5],
      [min_cutoff |-> 1, max_cutoff |-> 40],
      [min_cutoff |-> 2, max_cutoff |-> 3, step |-> 1],
      [min_cutoff |-> 50, max_cutoff |-> 200, step |-> 2],
      [min_cutoff |-> 5, max_cutoff |-> 3] }

\* apply_optimal_filter(m, "n50_optimize", **kwargs)
CallN50Optimize(kwargs) ==
    /\ lastOp = "init"
    /\ ret' = [kind |-> "call", m |-> heap["m"], kwargs |-> kwargs,
               out |-> n50_optimize(heap["m"], kwargs)]
    /\ lastOp' = "n50_optimize"
    /\ UNCHANGED <<heap, stages, input_sequences, result_sequences, fit, trace, runs,
                   completed, run_input, finalized, job>>

\* the keyword arguments given to the iqr method: k, carried as twice its value
IqrArgs == {<< >>, [k |-> 1], [k |-> 2], [k |-> 3], [k |-> 4]}

\* apply_optimal_filter(m, "iqr", **kwargs)
CallIqr(kwargs) ==
    /\ lastOp = "init"
    /\ ret' = [kind |-> "call", m |-> heap["m"], kwargs |-> kwargs,
               out |-> apply_optimal_filter(heap["m"], "iqr", kwargs, NoLibraryCall)]
    /\ lastOp' = "iqr"
    /\ UNCHANGED <<heap, stages, input_sequences, result_sequences, fit, trace, runs,
                   completed, run_input, finalized, job>>

\* the keyword arguments given to the zscore method: threshold, carried as twice
\* its value
ZscoreArgs == {<< >>, [threshold |-> 4], [threshold |-> 6]}

\* filter_by_zscore(m, z_threshold), as apply_optimal_filter calls it for the
\* zscore method
CallZscore(kwargs) ==
    /\ lastOp = "init"
    /\ ret' = [kind |-> "call", m |-> heap["m"], kwargs |-> kwargs,
               out |-> filter_by_zscore(heap["m"], Get(kwargs, "threshold", 5))]
    /\ lastOp' = "zscore"
    /\ UNCHANGED <<heap, stages, input_sequences, result_sequences, fit, trace, runs,
                   completed, run_input, finalized, job>>

\* apply_optimal_filter(m, "adaptive"), or apply_optimal_filter_with_details
CallAdaptive(detailed) ==
    /\ lastOp = "init"
    /\ ret' = [kind |-> "call", m |-> heap["m"], detailed |-> detailed,
               out |-> IF detailed
                       THEN apply_optimal_filter_with_details(heap["m"], "adaptive", << >>,
                                                              NoLibraryCall)
                       ELSE Detailed(apply_optimal_filter(heap["m"], "adaptive", << >>,
                                                          NoLibraryCall), {})]
    /\ lastOp' = "adaptive"
    /\ UNCHANGED <<heap, stages, input_sequences, result_sequences, fit, trace, runs,
                   completed, run_input, finalized, job>>

\* keyword arguments of the natural method
NaturalArgs ==
    { << >>,
      [gmm_method |-> "valley", transform |-> "log", component_method |-> "aic"],
      [gmm_method |-> "intersection", transform |-> "none"],
      [gmm_method |-> "probability", component_method |-> "dirichlet"] }

\* the assemblies given to the natural method: 49 and 50 contigs, an empty one
\* and a single contig
NaturalInputs ==
    {MapOf(lengths) : lengths \in {WideRange(MinPointsForGMM - 1),
                                   WideRange(MinPointsForGMM), << >>, <<300>>}}

\* identify_natural_cutoffs(lengths, ...) and apply_optimal_filter(m, "natural", ...),
\* the libraries behaving as f in both
CallNatural(seq_lengths, kwargs, f) ==
    /\ lastOp = "init"
    /\ ret' = [kind |-> "call", m |-> seq_lengths, kwargs |-> kwargs, f |-> f,
               found |-> identify_natural_cutoffs(Values(seq_lengths),
                             Get(kwargs, "gmm_method", "midpoint"),
                             Get(kwargs, "transform", "box-cox"),
                             Get(kwargs, "component_method", "bic"), f),
               out |-> apply_optimal_filter(seq_lengths, "natural", kwargs, f)]
    /\ lastOp' = "natural"
    /\ UNCHANGED <<heap, stages, input_sequences, result_sequences, fit, trace, runs,
                   completed, run_input, finalized, job>>

NextCalls ==
    \/ \E seq_lengths \in NaturalInputs, kwargs \in NaturalArgs, f \in FitOutcomes :
          CallNatural(seq_lengths, kwargs, f)
    \/ \E detailed \in BOOLEAN : CallAdaptive(detailed)
    \/ \E kwargs \in IqrArgs : CallIqr(kwargs)
    \/ \E kwargs \in ZscoreArgs : CallZscore(kwargs)
    \/ \E kwargs \in N50OptimizeArgs : CallN50Optimize(kwargs)
    \/ \E kwargs \in MinMaxArgs : CallMinMax(kwargs)
    \/ \E min_length, max_length \in BoundArgs : CallFilterByLength(min_length, max_length)
    \/ FilterByLengthAgain
    \/ CallCalculateN50
    \/ CallCalculateL50
    \/ \E p, q \in Percentages : CallOptimizeN50L50Tradeoff(p, q)
    \/ \E a \in N50SearchArgs : CallFindOptimalN50Cutoff(a[1], a[2], a[3])

SpecCalls == InitCalls /\ [][NextCalls]_vars

-----------------------------------------------------------------------------
(* The validators of backend/utils/config_validator.py called directly; ret
   keeps the argument and the tuple returned. *)

\* stage configurations on and around every limit that the validator tests
\* (k and threshold are twice the number: 20 is 10.0 and 21 is 10.5)
StageInputs ==
    { [method |-> "min_max"],
      [method |-> "min_max", params |-> [min_length |-> Num(0)]],
      [method |-> "min_max", params |-> [min_length |-> Num(-1)]],
      [method |-> "min_max", params |-> [max_length |-> Num(-1)]],
      [method |-> "min_max", params |-> [min_length |-> Num(2), max_length |-> Num(2)]],
      [method |-> "min_max", params |-> [min_length |-> Num(3), max_length |-> Num(2)]],
      [method |-> "min_max", params |-> [max_length |-> NotANumber]],
      [method |-> "iqr"],
      [method |-> "iqr", params |-> [k |-> Num(0)]],
      [method |-> "iqr", params |-> [k |-> Num(1)]],
      [method |-> "iqr", params |-> [k |-> Num(20)]],
      [method |-> "iqr", params |-> [k |-> Num(21)]],
      [method |-> "zscore", params |-> [threshold |-> Num(-1)]],
      [method |-> "zscore", params |-> [threshold |-> Num(20)]],
      [method |-> "zscore", params |-> [threshold |-> Num(22)]],
      [method |-> "zscore", params |-> [threshold |-> NotANumber]],
      [method |-> "adaptive"],
      [method |-> "natural", params |-> << >>],
      [method |-> "natural", params |-> [gmm_method |-> "valley", transform |-> "log",
                                         component_method |-> "loo"]],
      [method |-> "natural", params |-> [gmm_method |-> "mean"]],
      [method |-> "natural", params |-> [transform |-> "sqrt"]],
      [method |-> "natural", params |-> [component_method |-> "loo4"]],
      [method |-> "n50_optimize"],
      [method |-> "n50_optimize", params |-> [min_cutoff |-> Num(0)]],
      [method |-> "n50_optimize", params |-> [min_cutoff |-> Num(1), max_cutoff |-> Num(2)]],
      [method |-> "n50_optimize", params |-> [min_cutoff |-> Num(2), max_cutoff |-> Num(2)]],
      [method |-> "n50_optimize", params |-> [step |-> Num(0)]],
      [method |-> "n50_optimize", params |-> [step |-> Num(1)]],
      [method |-> "median"],
      [params |-> [min_length |-> Num(3)]] }

\* the configurations given to validate_pipeline_config: of no stage, of one
\* stage and of two
ConfigInputs == ListsUpTo(StageInputs, MaxStages)

InitConfig ==
    /\ heap = [m |-> << >>, in |-> << >>, res |-> << >>]
    /\ stages = << >>
    /\ input_sequences = "None"
    /\ result_sequences = "None"
    /\ fit = NoLibraryCall
    /\ trace = << >>
    /\ lastOp = "init"
    /\ ret = [kind |-> "none"]
    /\ runs = 0
    /\ completed = 0
    /\ run_input = << >>
    /\ finalized = NoReport
    /\ job = NoJob

\* validate_pipeline_config(config)
CallValidatePipelineConfig(config) ==
    /\ lastOp = "init"
    /\ ret' = [kind |-> "call", config |-> config, out |-> validate_pipeline_config(config)]
    /\ lastOp' = "validate_pipeline_config"
    /\ UNCHANGED <<heap, stages, input_sequences, result_sequences, fit, trace, runs,
                   completed, run_input, finalized, job>>

\* <<name, value>> items of the options dict: values of the right and of the
\* wrong type, inside and outside the ranges
OptionItems ==
    { <<"min_contig", PyInt(500)>>, <<"min_contig", PyInt(0)>>, <<"min_contig", PyInt(-100)>>,
      <<"min_contig", PyFloat(500, TRUE)>>, <<"min_contig", PyFloat(0, FALSE)>>,
      <<"min_contig", PyStr("500")>>, <<"min_contig", PyStr("abc")>>,
      <<"min_contig", PyNone>>, <<"min_contig", PyBool(TRUE)>>,
      <<"threads", PyInt(4)>>, <<"threads", PyInt(0)>>, <<"threads", PyInt(32)>>,
      <<"threads", PyInt(33)>>, <<"threads", PyStr("4")>>,
      <<"scaffold_gap_max_size", PyInt(0)>>, <<"scaffold_gap_max_size", PyInt(1)>>,
      <<"min_alignment", PyInt(-1)>>, <<"min_alignment", PyFloat(65, TRUE)>>,
      <<"gene_finding", PyBool(TRUE)>>, <<"gene_finding", PyStr("YES")>>,
      <<"gene_finding", PyStr("maybe")>>, <<"gene_finding", PyInt(1)>>,
      <<"large_genome", PyBool(FALSE)>>, <<"large_genome", PyStr("False")>>,
      <<"reference_genome", PyStr("/path/to/reference.fa")>>,
      <<"reference_genome", PyStr("")>>, <<"reference_genome", PyInt(7)>>,
      <<"reference_genome", PyNone>>,
      <<"labels", PyList(<<"a", "b">>)>>, <<"labels", PyStr("a, b")>>,
      <<"labels", PyInt(3)>>,
      <<"plots_format", PyStr("pdf")>>, <<"plots_format", PyStr("svg")>>,
      <<"ambiguity_usage", PyStr("all")>>,
      <<"min_contigs", PyInt(500)>> }

MaxOptions == 2

\* the options dicts: at most MaxOptions items, of different names
OptionInputs ==
    {options \in ListsUpTo(OptionItems, MaxOptions) :
        \A i, j \in 1..Len(options) : options[i][1] = options[j][1] => i = j}

\* validate_quast_options(options)
CallValidateQuastOptions(options, path_exists) ==
    /\ lastOp = "init"
    /\ ret' = [kind |-> "call", options |-> options, path_exists |-> path_exists,
               out |-> validate_quast_options(options, path_exists)]
    /\ lastOp' = "validate_quast_options"
    /\ UNCHANGED <<heap, stages, input_sequences, result_sequences, fit, trace, runs,
                   completed, run_input, finalized, job>>

\* lists of positive lengths whose square roots are whole
SquareLengths == {1, 4, 9, 100}

TransformInputs == ListsUpTo(SquareLengths, 2) \ {<< >>}

\* transform_data(lengths, transform_type), then inverse_transform_value of
\* the transformed value of lengths[i]
CallTransformAndInverse(lengths, i, transform_type, b) ==
    /\ lastOp = "init"
    /\ \E params \in {transform_params(lengths, transform_type, b)} :
         \E value \in {transformed_data(lengths, i, transform_type, b)} :
            ret' = [kind |-> "call", x |-> lengths[i], lengths |-> lengths,
                    transform_type |-> transform_type, fitted |-> b,
                    params |-> params, value |-> value,
                    original |-> inverse_transform_value(value, params)]
    /\ lastOp' = "inverse_transform_value"
    /\ UNCHANGED <<heap, stages, input_sequences, result_sequences, fit, trace, runs,
                   completed, run_input, finalized, job>>

\* the means of the components of a fitted mixture, in ascending order
ComponentMeans == {150, 400, 1001, 6000}

\* mixtures of one to three components of equal std, sorted by mean
Mixtures ==
    {c \in ListsUpTo({[mean |-> m, std |-> 20, weight |-> 1] : m \in ComponentMeans}, 3) :
        /\ c # << >>
        /\ \A i \in 1..(Len(c) - 1) : c[i].mean < c[i + 1].mean}

\* the cutoff part of identify_natural_cutoffs(lengths, method) when the
\* analysis without transform has found the given components; density[j] is
\* the density of the whole mixture at the midpoint of components j and j + 1
CallIdentifyNaturalCutoffs(components, density) ==
    /\ lastOp = "init"
    /\ ret' = [kind |-> "call", components |-> components, density |-> density,
               recommended |-> gmm_cutoffs(components,
                                           [type |-> "none", lambda |-> <<0, 1>>,
                                            offset |-> 0])]
    /\ lastOp' = "identify_natural_cutoffs"
    /\ UNCHANGED <<heap, stages, input_sequences, result_sequences, fit, trace, runs,
                   completed, run_input, finalized, job>>

\* the numbers of lengths and the requested max_components around the limits
\* of the component cap
DataSizes == {50, 99, 250, 600, 999, 1000, 1200}

RequestedComponents == {1, 2, 3, 5, 7, 10, 12}

\* the library retains every component of every mixture it is asked to fit
RetainsAll == [boxcox_raises |-> FALSE, fails_from |-> 0, ncomp |-> 12, cutoff |-> 250]

\* detect_multimodality(lengths, max_components, component_method=...) on n
\* lengths; largest is the n_components of the last mixture fitted
CallDetectMultimodality(n, max_components, component_method) ==
    /\ lastOp = "init"
    /\ ret' = [kind |-> "call", n |-> n, max_components |-> max_components,
               component_method |-> component_method,
               largest |-> CappedComponents(n, max_components),
               out |-> detect_multimodality([i \in 1..n |-> 100 + (i % 7)], max_components,
                                            "none", component_method, RetainsAll)]
    /\ lastOp' = "detect_multimodality"
    /\ UNCHANGED <<heap, stages, input_sequences, result_sequences, fit, trace, runs,
                   completed, run_input, finalized, job>>

NextConfig ==
    \/ \E n \in DataSizes, max_components \in RequestedComponents,
          component_method \in {"bic", "dirichlet"} :
          CallDetectMultimodality(n, max_components, component_method)
    \/ \E components \in Mixtures :
          \E density \in [1..(Len(components) - 1) -> 1..3] :
             CallIdentifyNaturalCutoffs(components, density)
    \/ \E lengths \in TransformInputs, transform_type \in {"box-cox", "log", "none"},
          b \in BoxCoxOutcomes :
          \E i \in 1..Len(lengths) : CallTransformAndInverse(lengths, i, transform_type, b)
    \/ \E options \in OptionInputs, path_exists \in BOOLEAN :
          CallValidateQuastOptions(options, path_exists)
    \/ \E config \in ConfigInputs : CallValidatePipelineConfig(config)

SpecConfig == InitConfig /\ [][NextConfig]_vars

-----------------------------------------------------------------------------
(* Properties of the pipeline and of the filter functions *)

\* the stage objects as add_stage created them
Configured(stgs) == [i \in 1..Len(stgs) |-> FilterStage(stgs[i].method, stgs[i].params)]

\* the state is the one in which a call of run has just ended
AfterRun == lastOp \in {"run_returned", "run_raised"}

\* stage i of the last run changed the dict it was given
Filtered(i) == trace[i].ok /\ trace[i].after # trace[i].before

(* C1: a run that returns has applied every stage exactly once, in the order
   the stages were added: the first stage received the run's input, every later
   stage the output of the stage before it, and the run's result is the last
   stage's output.  In the report, stage 1's sequences_before is
   input_sequence_count, stage i+1's sequences_before is stage i's
   sequences_after, and the last sequences_after is output_sequence_count. *)
C1_StagesRunOnceInOrder ==
    lastOp = "run_returned" =>
        \E rep \in {get_report} :
            LET n == Len(stages)
            IN /\ Len(trace) = n
               /\ \A i \in 1..n :
                     /\ trace[i].stage = i
                     /\ trace[i].ok
                     /\ trace[i].before = (IF i = 1 THEN run_input ELSE trace[i - 1].after)
               /\ heap[result_sequences] = (IF n = 0 THEN run_input ELSE trace[n].after)
               /\ rep.input_sequence_count = Size(run_input)
               /\ Len(rep.stages) = n
               /\ n > 0 =>
                     /\ rep.stages[1].sequences_before = rep.input_sequence_count
                     /\ \A i \in 1..(n - 1) :
                           rep.stages[i + 1].sequences_before = rep.stages[i].sequences_after
                     /\ rep.stages[n].sequences_after = rep.output_sequence_count

\* a first run of two stages has returned, and both stages removed sequences
C1_TwoStagesBothFilter ==
    /\ lastOp = "run_returned"
    /\ runs = 1
    /\ Len(trace) = 2
    /\ Filtered(1)
    /\ Filtered(2)

\* apply_optimal_filter with stage B on the result of apply_optimal_filter with stage A
Composition(x, A, B, f) ==
    LET a == apply_optimal_filter(x, A.method, A.params, f)
    IN IF ~a.ok THEN a ELSE apply_optimal_filter(a.value, B.method, B.params, f)

(* C2: the result of a pipeline of two stages A, B is apply_optimal_filter with
   B on the result of apply_optimal_filter with A on the run's input, in a first
   run and in a later run alike; the run raises exactly if one of the two calls
   does. *)
C2_PipelineIsComposition ==
    (AfterRun /\ Len(stages) = 2) =>
        \E c \in {Composition(run_input, stages[1], stages[2], fit)} :
            IF c.ok
            THEN /\ lastOp = "run_returned"
                 /\ heap[result_sequences] = c.value
            ELSE /\ lastOp = "run_raised"
                 /\ ret.exc = c.exc

\* a second run of two stages has returned after a first one, and its stages
\* removed sequences
C2_SecondRunOfTwoStages ==
    /\ lastOp = "run_returned"
    /\ completed = 2
    /\ Len(trace) = 2
    /\ Filtered(1)
    /\ Filtered(2)
    /\ heap[result_sequences] # run_input

\* the report of a new pipeline with the same stage configurations after one
\* run on x
FreshReport(stgs, x, f) ==
    LET r == RunStages(Configured(stgs), 1, x, "res", << >>, f)
    IN ReportOf([in |-> x, res |-> r.value], r.stages, "in", "res")

(* C3: when a run returns on a pipeline on which an earlier run returned, the
   report is the one a fresh pipeline with the same stages gives after this run
   alone: one stage report per stage, every count from this run. *)
C3_RerunResetsReport ==
    (lastOp = "run_returned" /\ completed >= 2) =>
        /\ get_report = FreshReport(stages, run_input, fit)
        /\ Len(get_report.stages) = Len(stages)

\* a second run of a single stage has returned after a first one, and the stage
\* removed sequences in it
C3_SecondRunOfOneStage ==
    /\ lastOp = "run_returned"
    /\ completed = 2
    /\ Len(stages) = 1
    /\ Filtered(1)
    /\ stages[1].original_count > stages[1].filtered_count

\* stage i of the last run is a natural stage whose analysis recommended no cutoff
NoCutoffFound(i) ==
    /\ stages[i].method = "natural"
    /\ LET found == identify_natural_cutoffs(Values(trace[i].before),
                         Get(stages[i].params, "gmm_method", "midpoint"),
                         Get(stages[i].params, "transform", "box-cox"),
                         Get(stages[i].params, "component_method", "bic"), fit)
       IN found.ok /\ found.value.recommended = << >>

(* C4: a stage of a completed run that found no cutoff has passed its input
   through unchanged, and its entry in the report has a process_details
   payload. *)
C4_NoCutoffIsRecorded ==
    lastOp = "run_returned" =>
        \A i \in 1..Len(trace) :
            NoCutoffFound(i) =>
                /\ trace[i].after = trace[i].before
                /\ "process_details" \in DOMAIN get_report.stages[i]

\* a stage of the configuration fails validation when taken alone
HasInvalidStage(config) == \E i \in 1..Len(config) : ~ValidateStage(config[i]).ok

(* C5: a configuration with an invalid stage is rejected as a whole before any
   stage executes.  validate_pipeline_config returns (False, message, []);
   configure_from_dict returns failure and leaves the pipeline's stages as they
   were, running nothing; POST /configure answers 400 and stores nothing, so
   the job of an uploaded file runs the stages of a configuration that is valid
   as a whole, all of them, or - if run_filter_job finds the configuration
   invalid - fails without applying a stage. *)
C5_InvalidConfigRejectedAtomically ==
    /\ (lastOp = "configure_from_dict" /\ HasInvalidStage(ret.config)) =>
          \E v \in {validate_pipeline_config(ret.config)} :
              /\ ~v.ok
              /\ v.error # "None"
              /\ v.config = << >>
              /\ ~ret.success
              /\ ret.error = v.error
              /\ stages = ret.stages_before
              /\ runs = ret.runs_before
    /\ (lastOp = "configure_filter" /\ HasInvalidStage(ret.config)) =>
          /\ ret.code \in {400, 404}
          /\ job.config = ret.config_before
    /\ job # NoJob =>
          /\ ~HasInvalidStage(job.config)
          /\ job.message = "Configuration error" => (trace = << >> /\ stages = << >>)
          /\ AfterRun =>
                \E v \in {validate_pipeline_config(job.config)} :
                    /\ v.ok
                    /\ Configured(stages) = NewPipeline(v.config)

\* configure_from_dict has rejected a configuration whose first stage is valid
\* and whose second is not, on a workflow that was configured and run before
C5_SecondStageInvalid ==
    /\ lastOp = "configure_from_dict"
    /\ ~ret.success
    /\ Len(ret.config) = 2
    /\ ValidateStage(ret.config[1]).ok
    /\ ~ValidateStage(ret.config[2]).ok
    /\ stages # << >>
    /\ completed >= 1

(* C6: an unknown method is never a silent no-op.  A direct call of
   apply_optimal_filter or apply_optimal_filter_with_details with a method
   outside Methods raises ValueError and returns no dict; a stage with such a
   method makes run raise ValueError at that stage, so a run that returns has
   applied known methods only. *)
C6_UnknownMethodRaises ==
    /\ (lastOp = "apply" /\ ret.call.method \notin Methods) =>
          /\ ~ret.out.ok
          /\ ret.out.exc = "ValueError"
          /\ ret.out.value = << >>
    /\ AfterRun =>
          \A k \in 1..Len(trace) :
              stages[trace[k].stage].method \notin Methods =>
                  /\ ~trace[k].ok
                  /\ k = Len(trace)
                  /\ lastOp = "run_raised"
                  /\ ret.exc = "ValueError"
    /\ lastOp = "run_returned" => \A i \in 1..Len(stages) : stages[i].method \in Methods

\* a run has raised ValueError at its second stage, of an unknown method, after
\* a first stage that removed sequences
C6_RunFailsAtUnknownStage ==
    /\ lastOp = "run_raised"
    /\ ret.exc = "ValueError"
    /\ Len(trace) = 2
    /\ Filtered(1)
    /\ stages[2].method \notin Methods

(* C7: a fit failure inside a natural stage is not fatal: a run never raises
   at a natural stage. *)
C7_NaturalStageNeverRaises ==
    lastOp = "run_raised" => stages[trace[Len(trace)].stage].method # "natural"

(* C8: after a run has returned, get_report gives the report of that run until
   the next run, whatever is done to the pipeline in between. *)
C8_ReportIsReadOnly ==
    finalized # NoReport => get_report = finalized

(* C9: no dict is changed in place.  A run leaves the caller's dict as it was
   when run was called, and so does a direct call of a filter function; the
   pipeline's input_sequences keeps the content the dict had at the call of run
   whatever the caller does to its dict afterwards. *)
C9_NoMutationInPlace ==
    /\ AfterRun => heap["m"] = run_input
    /\ input_sequences # "None" => heap[input_sequences] = run_input
    /\ lastOp = "apply" => heap["m"] = ret.arg

\* the caller has changed its dict after a run that removed sequences from its copy
C9_CallerChangedItsDict ==
    /\ lastOp = "caller_mutates"
    /\ result_sequences # "None"
    /\ heap["m"] # run_input
    /\ heap[result_sequences] # run_input
    /\ run_input # << >>

(* C10: the output of an n50_optimize stage is filter_by_length of its input
   with min_length the cutoff find_optimal_n50_cutoff returns for the input's
   lengths and the stage's min_cutoff, max_cutoff and step (step 10 if absent),
   and no maximum. *)
C10_N50StageUsesItsParams ==
    AfterRun =>
        \A k \in 1..Len(trace) :
            stages[trace[k].stage].method = "n50_optimize" =>
                LET p == stages[trace[k].stage].params
                    c == find_optimal_n50_cutoff(Values(trace[k].before),
                             Opt(p, "min_cutoff"), Opt(p, "max_cutoff"),
                             Get(p, "step", DefaultStep))
                IN /\ trace[k].ok
                   /\ trace[k].after = filter_by_length(trace[k].before, <<c[1]>>, None)

-----------------------------------------------------------------------------
(* Properties of the functions called directly *)

\* twice the median of a non-empty list
Median2(lengths) ==
    LET a == SortedAsc(lengths)
        n == Len(a)
    IN IF n % 2 = 1 THEN 2 * a[(n + 1) \div 2] ELSE a[n \div 2] + a[n \div 2 + 1]

\* the N50 of the lengths that are at least c
N50AtLeast(lengths, c) == calculate_n50(SelectSeq(lengths, LAMBDA x : x >= c))

\* the cutoffs scanned by the call recorded in ret: from min_cutoff in steps of
\* step up to max_cutoff, by default from max(1, min(lengths) // 10) to the median
ScannedCutoffs ==
    LET lo == IF ret.min_cutoff # None THEN ret.min_cutoff[1]
              ELSE MaxOf({1, MinOf(Elems(ret.lengths)) \div 10})
    IN {c \in lo..MaxOf(Elems(ret.lengths) \cup {lo, 100}) :
           /\ (c - lo) % ret.step = 0
           /\ IF ret.max_cutoff # None THEN c <= ret.max_cutoff[1]
              ELSE 2 * c <= Median2(ret.lengths)}

(* C11: find_optimal_n50_cutoff returns (c, n) with n the largest of the
   unfiltered N50 and the N50 of the lengths >= c' over the scanned cutoffs c';
   c is the smallest scanned cutoff that attains n if n is greater than the
   unfiltered N50, and 0 otherwise. *)
C11_FirstBestCutoff ==
    (lastOp = "find_optimal_n50_cutoff" /\ ret.lengths # << >>) =>
        \E scanned \in {ScannedCutoffs} :
            LET n0 == calculate_n50(ret.lengths)
                n == MaxOf({n0} \cup {N50AtLeast(ret.lengths, c) : c \in scanned})
            IN /\ ret.out[2] = n
               /\ n > n0 =>
                     ret.out[1] = MinOf({c \in scanned : N50AtLeast(ret.lengths, c) = n})
               /\ n = n0 => ret.out[1] = 0

\* the search has returned a cutoff that improves the N50, and a larger scanned
\* cutoff gives the same N50
C11_TieBetweenCutoffs ==
    /\ lastOp = "find_optimal_n50_cutoff"
    /\ ret.lengths # << >>
    /\ ret.out[2] > calculate_n50(ret.lengths)
    /\ \E c \in ScannedCutoffs :
          c > ret.out[1] /\ N50AtLeast(ret.lengths, c) = ret.out[2]

\* the call of the example: ten of length 100 and ninety of length 10, cutoffs
\* 50, 60, ..., 100
ExampleN50Call ==
    /\ lastOp = "find_optimal_n50_cutoff"
    /\ ret.lengths = TenLongNinetyShort
    /\ ret.min_cutoff = <<50>>
    /\ ret.max_cutoff = <<100>>
    /\ ret.step = 10

(* C12 as stated: for ten sequences of length 100 and ninety of length 10 the
   scan of the cutoffs 50..100 in steps of 10 selects the cutoff 100. *)
C12_ExampleSelectsCutoff100 == ExampleN50Call => ret.out[1] = 100

(* C12 as amended: for that input the unfiltered N50 is 100 already (the ten
   long sequences hold more than half of the total length), no scanned cutoff
   gives a greater N50, and the search returns cutoff 0 with N50 100. *)
C12_ExampleKeepsCutoff0 ==
    ExampleN50Call =>
        /\ calculate_n50(ret.lengths) = 100
        /\ \A c \in ScannedCutoffs : N50AtLeast(ret.lengths, c) = 100
        /\ ret.out = <<0, 100>>

\* the call of the example has been made, and all six cutoffs were scanned
C12_ExampleCalled == ExampleN50Call /\ Cardinality(ScannedCutoffs) = 6

\* the lengths that a minimum length of c retains
Retained(lengths, c) == SelectSeq(lengths, LAMBDA x : x >= c)

\* a minimum length of c retains the two percentages recorded in ret
RetainsEnough(c) ==
    /\ 100 * Len(Retained(ret.lengths, c)) >= ret.min_sequence_pct * Len(ret.lengths)
    /\ 100 * SumSeq(Retained(ret.lengths, c)) >= ret.min_length_pct * SumSeq(ret.lengths)

(* C13: the cutoff optimize_n50_l50_tradeoff returns for a non-empty list
   retains at least min_sequence_pct percent of the sequences and at least
   min_length_pct percent of the total length, and so does every trial cutoff
   0, 10, 20, ... before it: the search never goes past a cutoff that violates
   a percentage. *)
C13_CutoffRetainsPercentages ==
    (lastOp = "optimize_n50_l50_tradeoff" /\ ret.lengths # << >>) =>
        /\ RetainsEnough(ret.out)
        /\ \A t \in 0..ret.out : t % 10 = 0 => RetainsEnough(t)

\* d is the list `lengths` in descending order
IsSortedDescending(d, lengths) ==
    /\ Len(d) = Len(lengths)
    /\ \A v \in Elems(lengths) \cup Elems(d) : Count(d, v) = Count(lengths, v)
    /\ \A i \in 1..Len(d) - 1 : d[i] >= d[i + 1]

\* the first position of the descending list d at which the running sum is at
\* least half of the total
HalfPosition(d) ==
    MinOf({i \in 1..Len(d) : 2 * SumSeq(SubSeq(d, 1, i)) >= SumSeq(d)})

(* C14: for a list of positive lengths calculate_n50 returns the length at the
   first position of the descending list at which the running sum is at least
   half of the total, and calculate_l50 returns that position, between 1 and
   the number of lengths, so that the L50-th largest length is the N50; for the
   empty list they return 0. *)
C14_N50AndL50AtHalf ==
    lastOp \in {"calculate_n50", "calculate_l50"} =>
        IF ret.lengths = << >> THEN ret.out = 0
        ELSE \E d \in {SortedDesc(ret.lengths)} :
               /\ IsSortedDescending(d, ret.lengths)
               /\ lastOp = "calculate_n50" => ret.out = d[HalfPosition(d)]
               /\ lastOp = "calculate_l50" =>
                     /\ ret.out = HalfPosition(d)
                     /\ 1 <= ret.out /\ ret.out <= Len(ret.lengths)
                     /\ d[ret.out] = calculate_n50(ret.lengths)

\* calculate_l50 has returned a position after the first at which the running
\* sum is exactly half of the total, inside a run of equal lengths
C14_ExactlyHalf ==
    /\ lastOp = "calculate_l50"
    /\ ret.out >= 2
    /\ ret.out < Len(ret.lengths)
    /\ \E d \in {SortedDesc(ret.lengths)} :
          /\ 2 * SumSeq(SubSeq(d, 1, ret.out)) = SumSeq(d)
          /\ d[ret.out] = d[ret.out + 1]

(* C15: the min_max method keeps an id exactly if its length is at least
   min_length, when that is given, and at most max_length, when that is given;
   a length equal to a bound is kept, without bounds nothing is removed, and a
   kept id keeps its length. *)
C15_MinMaxBoundsInclusive ==
    lastOp = "min_max" =>
        /\ ret.out.ok
        /\ DOMAIN ret.out.value \subseteq DOMAIN ret.m
        /\ \A id \in DOMAIN ret.m :
              LET tooShort == "min_length" \in DOMAIN ret.kwargs
                                /\ ret.m[id] < ret.kwargs.min_length
                  tooLong == "max_length" \in DOMAIN ret.kwargs
                               /\ ret.m[id] > ret.kwargs.max_length
              IN /\ id \in DOMAIN ret.out.value <=> ~(tooShort \/ tooLong)
                 /\ id \in DOMAIN ret.out.value => ret.out.value[id] = ret.m[id]
        /\ ret.kwargs = << >> => ret.out.value = ret.m

\* min_max was called with both bounds; it kept a length equal to the minimum
\* and one equal to the maximum and removed a shorter and a longer one
C15_LengthsOnBothBounds ==
    /\ lastOp = "min_max"
    /\ DOMAIN ret.kwargs = {"min_length", "max_length"}
    /\ \E i, j \in DOMAIN ret.out.value :
          ret.m[i] = ret.kwargs.min_length /\ ret.m[j] = ret.kwargs.max_length
    /\ \E i, j \in DOMAIN ret.m \ DOMAIN ret.out.value :
          ret.m[i] < ret.kwargs.min_length /\ ret.m[j] > ret.kwargs.max_length

(* C16: filter_by_length is idempotent: applied with the same bounds to the
   dict it returned, it returns an equal dict. *)
C16_FilterByLengthIdempotent ==
    lastOp = "filter_by_length_again" => ret.out = ret.m

\* the second application followed a first one that removed some sequences and
\* kept others
C16_SecondFilterAfterRemoval ==
    /\ lastOp = "filter_by_length_again"
    /\ ret.m # << >>
    /\ Size(ret.m) < Size(ret.first)
    /\ ret.min_length # None
    /\ ret.max_length # None

\* the length x lies within the IQR fences of `lengths` for k = k2 / 2, the
\* quartiles being the 25th and 75th percentiles; all terms are eighths
WithinIqrFences(lengths, k2, x) ==
    LET q1 == Percentile4(lengths, 1)
        q3 == Percentile4(lengths, 3)
        lower8 == MaxOf({0, 2 * q1 - k2 * (q3 - q1)})
        upper8 == 2 * q3 + k2 * (q3 - q1)
    IN lower8 <= 8 * x /\ 8 * x <= upper8

(* C17: the iqr method keeps exactly the ids whose length lies within the
   fences [max(0, Q1 - k*IQR), Q3 + k*IQR], k being 1.5 by default; of the
   lengths 1, 2, 3, 4, 5, 100 with k = 1.5 it removes the 100 and keeps the
   others.  Stated for the inputs of at least four lengths, for which the
   code computes the quartiles. *)
C17_IqrKeepsWithinFences ==
    (lastOp = "iqr" /\ Size(ret.m) >= 4) =>
        /\ ret.out.ok
        /\ DOMAIN ret.out.value =
              {id \in DOMAIN ret.m :
                  WithinIqrFences(Values(ret.m), Get(ret.kwargs, "k", 3), ret.m[id])}
        /\ (ret.m = MapOf(IqrExample) /\ Get(ret.kwargs, "k", 3) = 3) =>
              DOMAIN ret.out.value = 1..5

\* whether a call returned, and the filtered dict it returned
Result(out) == [ok |-> out.ok, value |-> out.value]

(* C18: the adaptive method gives the result of the iqr method with k = 2.0
   if |skewness| > 4 and k = 1.5 if 2 < |skewness| <= 4, and otherwise that of
   the zscore method with threshold 3.0 if |kurtosis| < 1 and 2.5 if not.  The
   details variant returns the same filtered dict as the plain one, and its
   adaptive_details hold the selected method with that k_factor or z_factor. *)
C18_AdaptiveRoutesByShape ==
    lastOp = "adaptive" =>
        \E lengths \in {Values(ret.m)} :
            \E skewed \in {AbsSkewExceeds(lengths, 4)} :
                \E factor \in {IF skewed
                                THEN (IF AbsSkewExceeds(lengths, 16) THEN 4 ELSE 3)
                                ELSE (IF AbsKurtosisBelowOne(lengths) THEN 6 ELSE 5)} :
                    /\ Result(ret.out) =
                          Result(apply_optimal_filter(ret.m, IF skewed THEN "iqr" ELSE "zscore",
                                     IF skewed THEN [k |-> factor] ELSE [threshold |-> factor],
                                     NoLibraryCall))
                    /\ (ret.detailed /\ ret.out.ok) =>
                          ret.out.adaptive_details =
                              IF skewed THEN [selected_method |-> "iqr", k_factor |-> factor]
                              ELSE [selected_method |-> "zscore", z_factor |-> factor]

\* the details variant has selected iqr with k = 1.5 and removed a sequence
C18_SkewedRoutedToIqr ==
    /\ lastOp = "adaptive"
    /\ ret.detailed
    /\ ret.out.ok
    /\ ret.out.adaptive_details = [selected_method |-> "iqr", k_factor |-> 3]
    /\ ret.out.value # ret.m

\* the entries of m whose length is at least cutoff
AtLeast(m, cutoff) == [id \in {i \in DOMAIN m : m[i] >= cutoff} |-> m[id]]

(* C19: the natural filter returns its input unchanged when the analysis
   recommends no cutoff, which is the case for every input of fewer than 50
   lengths and whenever fewer than 2 mixture components are retained;
   otherwise it returns exactly the ids of length >= the recommended cutoff. *)
C19_NaturalPassesThroughOrCuts ==
    lastOp = "natural" =>
        /\ Size(ret.m) < 50 =>
              ret.found.ok /\ ret.found.value.recommended = << >> /\ ret.out.ok
        /\ (ret.found.ok /\ ret.found.value.component_count < 2) =>
              ret.found.value.recommended = << >>
        /\ ret.found.ok =>
              /\ ret.out.ok
              /\ ret.out.value = IF ret.found.value.recommended = << >> THEN ret.m
                                 ELSE AtLeast(ret.m, ret.found.value.recommended[1])

\* a cutoff is recommended for 50 lengths, and the filter removes some of the
\* sequences and keeps others
C19_CutoffRemovesShortContigs ==
    /\ lastOp = "natural"
    /\ Size(ret.m) = 50
    /\ ret.found.ok
    /\ ret.found.value.recommended = <<250>>
    /\ ret.out.ok
    /\ ret.out.value # ret.m
    /\ ret.out.value # << >>

(* C20: a non-empty recommendation of identify_natural_cutoffs is one integer
   c with 100 <= c <= 5000, whatever the input, the tie-break method, the
   transform and the component selection; a natural filter that has a cutoff
   removes every sequence shorter than 100 and keeps every sequence of length
   5000 or more. *)
C20_RecommendedCutoffClamped ==
    (lastOp = "natural" /\ ret.found.ok /\ ret.found.value.recommended # << >>) =>
        /\ Len(ret.found.value.recommended) = 1
        /\ ret.found.value.recommended[1] \in 100..5000
        /\ ret.out.ok
        /\ \A id \in DOMAIN ret.m :
              /\ ret.m[id] < 100 => id \notin DOMAIN ret.out.value
              /\ ret.m[id] >= 5000 => id \in DOMAIN ret.out.value

\* the cutoff found lies above 5000: the recommendation is 5000, and contigs of
\* length 5000 stay while shorter ones go
C20_CutoffAbove5000Capped ==
    /\ lastOp = "natural"
    /\ ret.f.cutoff > 5000
    /\ ret.found.ok
    /\ ret.found.value.recommended = <<5000>>
    /\ ret.out.ok
    /\ \E id \in DOMAIN ret.out.value : ret.m[id] = 5000
    /\ \E id \in DOMAIN ret.m : id \notin DOMAIN ret.out.value

-----------------------------------------------------------------------------
(* Properties of the validators *)

\* params[key] is given and is a number
Given(params, key) == Has(params, key) /\ params[key].num

\* The constraints on one stage: the method is one of the six names, and the
\* parameters given are within their limits
SatisfiesConstraints(stage) ==
    /\ Has(stage, "method")
    /\ stage.method \in {"min_max", "iqr", "zscore", "adaptive", "n50_optimize", "natural"}
    /\ \E params \in {IF Has(stage, "params") THEN stage.params ELSE << >>} :
         CASE stage.method = "min_max" ->
                /\ Has(params, "min_length") =>
                     params.min_length.num /\ params.min_length.v >= 0
                /\ Has(params, "max_length") =>
                     params.max_length.num /\ params.max_length.v >= 0
                /\ (Given(params, "min_length") /\ Given(params, "max_length")) =>
                     params.min_length.v <= params.max_length.v
           [] stage.method = "iqr" ->
                Has(params, "k") => params.k.num /\ params.k.v > 0 /\ params.k.v <= 20
           [] stage.method = "zscore" ->
                Has(params, "threshold") =>
                    params.threshold.num /\ params.threshold.v > 0 /\ params.threshold.v <= 20
           [] stage.method = "natural" ->
                /\ Has(params, "gmm_method") =>
                     params.gmm_method \in {"midpoint", "intersection", "probability", "valley"}
                /\ Has(params, "transform") => params.transform \in {"box-cox", "log", "none"}
                /\ Has(params, "component_method") =>
                     params.component_method \in {"bic", "aic", "loo", "dirichlet"}
           [] stage.method = "n50_optimize" ->
                /\ \A key \in DOMAIN params : params[key].num
                /\ (Has(params, "min_cutoff") /\ Has(params, "max_cutoff")) =>
                     params.min_cutoff.v < params.max_cutoff.v
                /\ Has(params, "step") => params.step.v >= 1
           [] OTHER -> TRUE

(* C21: validate_pipeline_config accepts a non-empty configuration exactly when
   every stage satisfies the constraints (one of the six methods; min_max
   bounds >= 0 and min_length <= max_length; k and threshold in (0, 10]; the
   natural options within their enumerations; min_cutoff < max_cutoff and
   step >= 1), and the accepted configuration has the stages of the input, in
   their order. *)
C21_AcceptsExactlyValidConfigs ==
    (lastOp = "validate_pipeline_config" /\ ret.config # << >>) =>
        /\ ret.out.ok <=> \A i \in 1..Len(ret.config) : SatisfiesConstraints(ret.config[i])
        /\ ret.out.ok =>
             /\ Len(ret.out.config) = Len(ret.config)
             /\ \A i \in 1..Len(ret.config) : ret.out.config[i].method = ret.config[i].method

\* the integer that a value denotes: an int, a float without fractional part,
\* or a string of digits
DenotesInteger(value) ==
    \/ value.type = "int"
    \/ value.type = "float" /\ value.whole
    \/ value.type = "str" /\ value.s \in {"500", "4"}

IntegerDenoted(value) ==
    IF value.type = "str" THEN (IF value.s = "500" THEN 500 ELSE 4) ELSE value.n

WithinRange(cfg, n) == (Has(cfg, "min") => n >= cfg.min) /\ (Has(cfg, "max") => n <= cfg.max)

IntOptions == {name \in DOMAIN QUAST_OPTIONS_PARAMS : QUAST_OPTIONS_PARAMS[name].type = "int"}

(* C23: validate_quast_options accepts, for an int option, every value that
   denotes an integer within the range of the option - the string '500' for
   min_contig included - and returns it as that integer; it rejects an integer
   out of range (min_contig = -100) with is_valid False and an error; a
   reference_genome path that does not exist is accepted. *)
C23_IntOptionsConvertedAndRanged ==
    lastOp = "validate_quast_options" =>
        /\ (\A i \in 1..Len(ret.options) :
               \/ ret.options[i][1] \in IntOptions /\ DenotesInteger(ret.options[i][2])
                    /\ WithinRange(QUAST_OPTIONS_PARAMS[ret.options[i][1]],
                                   IntegerDenoted(ret.options[i][2]))
               \/ ret.options[i] = <<"reference_genome", PyStr("/path/to/reference.fa")>>)
           => /\ ret.out.ok
              /\ \A i \in 1..Len(ret.options) :
                    ret.options[i][1] \in IntOptions =>
                        ret.out.options[ret.options[i][1]] =
                            PyInt(IntegerDenoted(ret.options[i][2]))
        /\ (\E i \in 1..Len(ret.options) :
               /\ ret.options[i][1] \in IntOptions
               /\ DenotesInteger(ret.options[i][2])
               /\ ~WithinRange(QUAST_OPTIONS_PARAMS[ret.options[i][1]],
                               IntegerDenoted(ret.options[i][2])))
           => ~ret.out.ok /\ ret.out.error # "None"

(* C22: for each transform kind and every transform_params that
   transform_data returns for positive lengths - those of a Box-Cox fit whose
   lambda was limited to 0 or 0.5 included - inverse_transform_value of the
   transformed value of x is x. *)
C22_TransformRoundTrip ==
    lastOp = "inverse_transform_value" => ret.original = <<ret.x, 1>>

\* the adjacent pair of components at whose candidate cutoff the density of
\* the mixture is smallest (the first such pair)
DeepestValley(density) ==
    MinOf({j \in DOMAIN density : \A i \in DOMAIN density : density[j] <= density[i]})

(* C24: with two or more retained components, identify_natural_cutoffs takes
   one candidate cutoff for every adjacent pair of the mean-sorted components
   and recommends the candidate at which the density of the whole mixture is
   smallest. *)
C24_RecommendsDeepestValley ==
    (lastOp = "identify_natural_cutoffs" /\ Len(ret.components) >= 2) =>
        \E j \in {DeepestValley(ret.density)} :
            ret.recommended =
                <<ReasonableCutoff(MidpointCutoff(ret.components[j], ret.components[j + 1]))>>

(* C25: for n >= 50 lengths and a requested max_components r >= 1, the largest
   component count that detect_multimodality fits is min(r, max(2, n/100), 10),
   and at most 5 when n < 1000; it exceeds neither r nor 10. *)
C25_ComponentCap ==
    lastOp = "detect_multimodality" =>
        \E cap \in {MinOf({ret.max_components, MaxOf({2, ret.n \div 100}), 10})} :
            /\ ret.largest = IF ret.n < 1000 THEN MinOf({cap, 5}) ELSE cap
            /\ ret.out.ok /\ ret.out.value.components = ret.largest
            /\ ret.largest <= ret.max_components
            /\ ret.largest <= 10

-----------------------------------------------------------------------------
(* Properties of the filters and of the pipeline, continued *)

\* every id of out is an id of m, with the length it has in m
IsSubmap(out, m) == \A id \in DOMAIN out : id \in DOMAIN m /\ out[id] = m[id]

\* a percentage <<numerator, denominator>> within [0, 100]
IsPercentage(p) == p[1] >= 0 /\ p[1] <= 100 * p[2]

(* C26: filtering only removes.  What a filter call returns, what a stage of a
   run returns and what a run returns holds only ids of its input, with their
   lengths; every stage report has sequences_after <= sequences_before, and
   every reduction_percent and the total_reduction_percent are within
   [0, 100], and 0 when the count before is 0. *)
C26_FilteringOnlyRemoves ==
    /\ (lastOp = "apply" /\ ret.out.ok) => IsSubmap(ret.out.value, ret.arg)
    /\ \A i \in 1..Len(trace) : trace[i].ok => IsSubmap(trace[i].after, trace[i].before)
    /\ lastOp = "run_returned" => IsSubmap(heap[result_sequences], heap[input_sequences])
    /\ (lastOp = "get_report" /\ "error" \notin DOMAIN ret.report) =>
          /\ IsPercentage(ret.report.total_reduction_percent)
          /\ ret.report.input_sequence_count = 0 =>
                ret.report.total_reduction_percent[1] = 0
          /\ \A i \in 1..Len(ret.report.stages) :
                /\ ret.report.stages[i].sequences_after <=
                      ret.report.stages[i].sequences_before
                /\ IsPercentage(ret.report.stages[i].reduction_percent)
                /\ ret.report.stages[i].sequences_before = 0 =>
                      ret.report.stages[i].reduction_percent[1] = 0

\* the counts of a report
CountsOf(report) ==
    [input_sequence_count |-> report.input_sequence_count,
     output_sequence_count |-> report.output_sequence_count,
     stages |-> [i \in DOMAIN report.stages |->
                    <<report.stages[i].sequences_before, report.stages[i].sequences_after>>]]

\* the counts that one run of the stages stgs on x leaves in the pipeline, the
\* run having ended as r
CountsOfRun(x, r) == CountsOf(ReportOf([in |-> x, res |-> r.value], r.stages, "in", "res"))

(* C27: a report that get_report returns holds the counts of one run: there
   is a run of the pipeline's stages that returned and that produced its
   input_sequence_count, its output_sequence_count and the counts of every
   stage - also after a run that raised on a pipeline that had completed an
   earlier run.  Stated for a pipeline whose stages were all applied in its
   last run (no stage was added since). *)
C27_ReportOfOneRun ==
    (lastOp = "get_report" /\ "error" \notin DOMAIN ret.report /\ Len(trace) = Len(stages)) =>
        \E x \in InputMaps, f \in FitsFor(stages) :
            \E r \in {RunStages(Configured(stages), 1, x, "res", << >>, f)} :
                r.ok /\ CountsOf(ret.report) = CountsOfRun(x, r)

(* C28: with too few data points the statistical filters apply no filtering
   instead of failing: the iqr method on fewer than 4 sequences, the zscore
   method on fewer than 2 and the adaptive method on an empty mapping return
   every input sequence and do not raise. *)
C28_FewPointsPassThrough ==
    ( \/ lastOp = "iqr" /\ Size(ret.m) < 4
      \/ lastOp = "zscore" /\ Size(ret.m) < 2
      \/ lastOp = "adaptive" /\ Size(ret.m) = 0 ) =>
        ret.out.ok /\ ret.out.value = ret.m

(* C29: for a non-empty list of positive lengths and any min_cutoff, max_cutoff
   and step >= 1, find_optimal_n50_cutoff returns (cutoff, n50) with n50 the N50
   of the lengths >= cutoff and n50 at least the N50 of all the lengths; the
   n50_optimize method applied to a non-empty mapping returns, and retains at
   least one of its sequences. *)
C29_N50SearchKeepsSequences ==
    /\ (lastOp = "find_optimal_n50_cutoff" /\ ret.lengths # << >> /\ ret.step >= 1) =>
          /\ ret.out[2] = N50AtLeast(ret.lengths, ret.out[1])
          /\ ret.out[2] >= calculate_n50(ret.lengths)
          /\ ret.out[2] > 0
    /\ (lastOp = "n50_optimize" /\ Size(ret.m) > 0) =>
          /\ ret.out.ok
          /\ Size(ret.out.value) >= 1
          /\ IsSubmap(ret.out.value, ret.m)

\* the n50_optimize method has removed a sequence and retained another
C29_CutoffRemovedSome ==
    /\ lastOp = "n50_optimize"
    /\ ret.out.ok
    /\ Size(ret.out.value) >= 1
    /\ Size(ret.out.value) < Size(ret.m)

-----------------------------------------------------------------------------
(* Properties of the job API *)

\* config is what validate_pipeline_config returns for a configuration it accepts
IsValidatedConfig(config) ==
    \E c \in PipelineConfigs :
        \E v \in {validate_pipeline_config(c)} : v.ok /\ v.config = config

\* the step is the request execute_filter answered with the given codes
FilterAnswered(codes) == lastOp' = "execute_filter" /\ ret'.code \in codes

(* C30: in every step of the job API, whatever the interleaving of the requests
   and the background tasks: execute_filter starts a run only if the status is
   completed, a validated configuration is stored and no run of the job is in
   flight, and it has set the status to processing when the run is scheduled;
   a run in flight goes with the status processing until it ends or the job is
   deleted; configure_filter is rejected and changes nothing while a run is in
   flight; a failed job stays failed, with its configuration, and no run is
   scheduled for it, until it is deleted. *)
C30_OneFilterRunPerJob ==
    [][ /\ FilterAnswered({200}) =>
              /\ job.status = "completed"
              /\ IsValidatedConfig(job.config)
              /\ ~job.scheduled
              /\ job'.status = "processing"
              /\ job'.scheduled
        /\ FilterAnswered({400, 404}) => job' = job
        /\ (job' # NoJob /\ job'.scheduled /\ job'.status # "deleted") =>
              job'.status = "processing"
        /\ (job # NoJob /\ job.scheduled /\ lastOp' = "configure_filter") =>
              ret'.code \in {400, 404} /\ job' = job
        /\ (job # NoJob /\ job.status = "failed") =>
              /\ job'.status \in {"failed", "deleted"}
              /\ ~job'.scheduled
              /\ job'.status = "failed" => job'.config = job.config
              /\ lastOp' \in {"configure_filter", "execute_filter"} => ret'.code = 400
      ]_vars

\* configure_filter has been rejected while a filter run of the job is in flight
C30_ConfigureRejectedInFlight ==
    /\ lastOp = "configure_filter"
    /\ ret.code = 400
    /\ job.scheduled
    /\ job.status = "processing"

====
